---- MODULE Spec2Model ----
(***************************************************************************)
(* The durable export queue of opencode-helicone-async-telemetry:          *)
(* QueueManager (src/src/queue/manager.ts), SpoolManager                   *)
(* (src/unnamed/part_003) and IdempotencyTracker                           *)
(* (src/src/queue/idempotency.ts).                                         *)
(*                                                                         *)
(* The program runs on one JavaScript thread.  Every `await` on spool I/O  *)
(* or on the processor callback is a point where the other pending calls   *)
(* (enqueue, flush, the detached cleanup of start) may run, so each action *)
(* below is the code between two such points.  A spool write takes effect  *)
(* at its own step, between the step that starts it and the step that      *)
(* resumes its caller.                                                     *)
(***************************************************************************)
EXTENDS Integers, Sequences, FiniteSets, TLC

VARIABLES
  spool,        \* the spool directory: id -> persisted QueueItem, or NoRec
  processed,    \* IdempotencyTracker.processed (Set<string>)
  keys,         \* IdempotencyTracker.keys (string[], FIFO order)
  flushTimer,   \* QueueManager.flushTimer is set
  processor,    \* QueueManager.processor is set
  isProcessing, \* QueueManager.isProcessing
  maxRetries,   \* config.maxRetries
  maxSize,      \* IdempotencyTracker.maxSize
  now,          \* Date.now()
  enq,          \* the enqueue() calls: caller -> frame
  fl,           \* the flush() calls: slot -> frame
  cln,          \* the cleanup() calls: owner -> frame (0: start(), s: flush slot s)
  acked,        \* history: the ids whose record was written by an enqueue() that returned true
  fresh,        \* history: id -> the record an enqueue() wrote, undisturbed since
  sd,           \* history: the shutdown() call in progress
  last,         \* history: what the step just taken returned to its caller
  recent,       \* history of the tracker calls: what a strict FIFO of maxSize keys holds
  call,         \* the call of a pure function: its arguments, then its result;
                \* or the session tracker and the message collector on their own
  plugin,       \* the plugin closure: `initialized` and `state`
  ev            \* the invocations of the plugin's event handler: handler -> frame

vars == <<spool, processed, keys, flushTimer, processor, isProcessing,
          maxRetries, maxSize, now, enq, fl, cln, acked, fresh, sd, last, recent,
          call, plugin, ev>>

(***************************************************************************)
(* Bounds of the model.                                                    *)
(***************************************************************************)
MaxRetriesBound == 2    \* config.maxRetries ranges over 0..MaxRetriesBound
TrackerMaxSize == 1     \* tracker capacity (10000 in the program), small so that eviction happens
SpoolMaxAge == 0        \* config.maxSpoolAge, in clock ticks
SpoolMaxSize == 5       \* config.maxSpoolSize, in size units

TrackerCapacityBound == 2 \* a tracker on its own has maxSize in 1..TrackerCapacityBound
LifecycleMaxRetries == 1  \* config.maxRetries in the life-cycle specification
RetryBaseDelay == 1     \* config.retryBaseDelay, in clock ticks
Clock == {0, 1}         \* the values of Date.now()
Ids == {"a", "b"}
TrackerKeys == {"", "a", "b", "c"}   \* the keys given to a tracker on its own
MaxStrLen == 2          \* session and message ids have at most MaxStrLen characters
Chars == {"x", ":"}     \* the characters of session and message ids
WordValues == {0, 1, 255, 4096, 65535}   \* the 16-bit words of a hash value
CharTable == <<"0", "1", "2", "3", "4", "5", "6", "7", "8", "9", "x", ":", "t">>
IdOrder == <<"a", "b">>     \* the order readdirSync lists the record files in
EnqCallers == {1, 2}
Handlers == {1, 2}
FlushSlots == {1, 2}
CleanupOwners == {0} \cup FlushSlots

\* QueueItemStatus
Statuses == {"pending", "processing", "failed", "dead"}

\* read() of a path that does not exist: null (lastAttemptAt -1: the field is not set)
NoRec == [id |-> "none", status |-> "absent", retryCount |-> 0, createdAt |-> 0,
          lastAttemptAt |-> -1, error |-> FALSE]

\* The item a producer hands to enqueue(): status pending, retryCount 0, createdAt Date.now()
NewItem(i, t) == [id |-> i, status |-> "pending", retryCount |-> 0, createdAt |-> t,
                  lastAttemptAt |-> -1, error |-> FALSE]

(***************************************************************************)
(* IdempotencyTracker                                                      *)
(***************************************************************************)
Truthy(k) == k # ""

IdempotencyHas(k) == k \in processed

\* an add() that forgets the key
TrackerAddNothing(k) == <<processed, keys>>

\* add(key): the pair <<processed', keys'>>
TrackerAdd(k) ==
  IF k \in processed THEN <<processed, keys>>
  ELSE LET evict == Len(keys) >= maxSize
           oldest == Head(keys)
           p1 == IF evict /\ Truthy(oldest) THEN processed \ {oldest} ELSE processed
           k1 == IF evict THEN Tail(keys) ELSE keys
       IN  <<p1 \cup {k}, Append(k1, k)>>

\* the elements of a sequence
Range(s) == {s[k] : k \in 1..Len(s)}

\* keys.indexOf(key), keys.splice(index, 1): the first occurrence is taken out
RECURSIVE Splice(_, _)
Splice(s, k) ==
  IF s = <<>> THEN <<>>
  ELSE IF Head(s) = k THEN Tail(s)
  ELSE <<Head(s)>> \o Splice(Tail(s), k)

\* remove(key): the pair <<processed', keys'>>
TrackerRemove(k) == <<processed \ {k}, Splice(keys, k)>>

\* clear(): the pair <<processed', keys'>>
TrackerClear == <<{}, <<>>>>

\* size()
TrackerSize == Cardinality(processed)

(***************************************************************************)
(* SpoolManager                                                            *)
(***************************************************************************)
\* a read() that never finds the record
SpoolReadMissing(sp, i) == NoRec

\* read(id): the record, or NoRec when the file does not exist
SpoolRead(sp, i) == sp[i]

\* a write() that resets the status and the retry count
SpoolWritePending(sp, item) ==
  [sp EXCEPT ![item.id] = [item EXCEPT !.status = "pending", !.retryCount = 0]]

\* write(item): overwrites the file of item.id
SpoolWrite(sp, item) == [sp EXCEPT ![item.id] = item]

\* a delete() that leaves the file in place
SpoolDeleteKeeps(sp, i) == sp

\* delete(id): no-op when absent
SpoolDelete(sp, i) == [sp EXCEPT ![i] = NoRec]

\* listAll(): the valid records, in directory order
ListAll(sp) ==
  LET present == SelectSeq(IdOrder, LAMBDA i: sp[i] # NoRec)
  IN  [k \in 1..Len(present) |-> sp[present[k]]]

\* getByStatus(status)
GetByStatus(sp, st) == SelectSeq(ListAll(sp), LAMBDA r: r.status = st)

\* statSync(path).size of JSON.stringify(item): lastAttemptAt and error are
\* optional fields, present in the file only once they are set
ItemSize(r) == 2 + (IF r.lastAttemptAt # -1 THEN 1 ELSE 0) + (IF r.error THEN 1 ELSE 0)

RECURSIVE SumSizes(_)
SumSizes(s) == IF s = <<>> THEN 0 ELSE ItemSize(Head(s)) + SumSizes(Tail(s))

\* getStats().spoolSizeBytes
SpoolSizeBytes(sp) == SumSizes(ListAll(sp))

\* an age pass that also takes the items whose age is exactly maxAge
ExpiredInclusive(all, at) == {all[k].id : k \in {j \in 1..Len(all) : at - all[j].createdAt >= SpoolMaxAge}}

\* cleanup(), age pass: the ids of the listed items that are older than maxAge
Expired(all, at) == {all[k].id : k \in {j \in 1..Len(all) : at - all[j].createdAt > SpoolMaxAge}}

RECURSIVE DeleteAll(_, _)
DeleteAll(sp, S) ==
  IF S = {} THEN sp
  ELSE LET i == CHOOSE x \in S : TRUE IN DeleteAll(SpoolDelete(sp, i), S \ {i})

\* remaining.sort((a, b) => a.createdAt - b.createdAt): stable insertion by createdAt
RECURSIVE InsertSorted(_, _)
InsertSorted(s, r) ==
  IF s = <<>> THEN <<r>>
  ELSE IF Head(s).createdAt <= r.createdAt THEN <<Head(s)>> \o InsertSorted(Tail(s), r)
  ELSE <<r>> \o s

\* a size pass that walks the items in directory order
SortNone(s) == s

RECURSIVE SortByCreatedAt(_)
SortByCreatedAt(s) ==
  IF s = <<>> THEN <<>>
  ELSE InsertSorted(SortByCreatedAt(SubSeq(s, 1, Len(s) - 1)), s[Len(s)])

\* cleanup(), size pass: walk the sorted list, deleting while currentSize > maxSize
RECURSIVE SizePass(_, _, _)
SizePass(sp, remaining, currentSize) ==
  IF remaining = <<>> \/ currentSize <= SpoolMaxSize THEN sp
  ELSE LET i == Head(remaining).id IN
       IF sp[i] # NoRec
       THEN SizePass(SpoolDelete(sp, i), Tail(remaining), currentSize - ItemSize(sp[i]))
       ELSE SizePass(sp, Tail(remaining), currentSize)

(***************************************************************************)
(* Frames of the calls in progress, and what a call returned               *)
(***************************************************************************)
\* won: an enqueue() of the same id returned true while this call was in
\* progress (history of the call)
IdleEnq == [pc |-> "idle", item |-> NoRec, second |-> FALSE, won |-> FALSE]

\* collected, called: the ids of toProcess as the two listings returned them,
\* and the ids the processor was called with, in order (history of the loop,
\* forgotten when the loop is over); late: the ids an enqueue() wrote a
\* record for after the batch was collected
IdleFlush == [pc |-> "idle", shutdown |-> FALSE, batch |-> <<>>, item |-> NoRec,
              processed |-> 0, ok |-> {}, okKept |-> {}, io |-> FALSE,
              collected |-> <<>>, called |-> <<>>, late |-> {}]

IdleCleanup == [pc |-> "idle", all |-> <<>>, at |-> 0, size |-> 0]

NoShutdown == [running |-> FALSE, missed |-> {}]

NoFresh == [rec |-> NoRec, returned |-> FALSE]

\* A step of flush() or cleanup() ends every "nothing ran in between" period
Disturbed == [i \in Ids |-> NoFresh]
EnqDisturbed == [e \in EnqCallers |-> [enq[e] EXCEPT !.second = FALSE]]

NoEvent == [op |-> "none", id |-> "none", result |-> "none", second |-> FALSE,
            n |-> 0, left |-> {}, leftKept |-> {}, missed |-> {}, deleted |-> {},
            caught |-> "none"]

\* enqueue(item i) returned: "accepted" (true), "tracker" or "spool" (false,
\* by the check that rejected it), "threw"
EnqueueReturned(i, result, second) ==
  [NoEvent EXCEPT !.op = "enqueue", !.id = i, !.result = result, !.second = second]

\* flush() returned to `via`: "skipped", "noprocessor", "done" with n
\* processed, or "threw".  left: the ids delivered in this flush that have a
\* record as it returns; missed: for shutdown(), the ids that were eligible
\* when it was called and had no attempt since.
\* a pass ("age", "size") of cleanup() is over, having deleted the records of
\* the ids in `deleted`
CleanupPassed(pass, deleted) ==
  [NoEvent EXCEPT !.op = "cleanup", !.id = pass, !.deleted = deleted]

FlushReturned(via, result, n, left, leftKept, missed) ==
  [NoEvent EXCEPT !.op = "flush", !.id = via, !.result = result, !.n = n,
                  !.left = left, !.leftKept = leftKept, !.missed = missed]

\* no add() was made on the tracker.  added: the keys a first-in-first-out
\* set of maxSize keys holds, oldest first; seen: every key given to add();
\* pure: the calls so far were add() calls of pairwise distinct keys;
\* order: the keys has() is true for, by the add() that made each present;
\* delivered: the ids the processor has resolved for in this process
NoRecent == [added |-> <<>>, seen |-> {}, pure |-> TRUE, order |-> <<>>, delivered |-> {}]

\* no pure function was called
NoCall == [fn |-> "none"]

\* the plugin factory has run: let state = null, initialized = false.
\* session, messages: sessionTracker.hasSession(), messageCollector.count() > 0
NoPlugin == [initialized |-> FALSE, state |-> "null", session |-> FALSE, messages |-> FALSE,
             lost |-> FALSE]

\* no invocation of the event handler in progress
IdleHandler == [pc |-> "idle", type |-> "none", enqueued |-> "none"]

Init ==
  /\ spool = [i \in Ids |-> NoRec]
  /\ processed = {}
  /\ keys = <<>>
  /\ flushTimer = FALSE
  /\ processor = FALSE
  /\ isProcessing = FALSE
  /\ maxRetries \in 0..MaxRetriesBound
  /\ maxSize = TrackerMaxSize
  /\ recent = NoRecent
  /\ call = NoCall
  /\ plugin = NoPlugin
  /\ ev = [h \in Handlers |-> IdleHandler]
  /\ now = 0
  /\ enq = [e \in EnqCallers |-> IdleEnq]
  /\ fl = [s \in FlushSlots |-> IdleFlush]
  /\ cln = [o \in CleanupOwners |-> IdleCleanup]
  /\ acked = {}
  /\ fresh = [i \in Ids |-> NoFresh]
  /\ sd = NoShutdown
  /\ last = NoEvent

(***************************************************************************)
(* QueueManager.enqueue                                                    *)
(***************************************************************************)
\* enqueue(item), up to its first suspension: the tracker check, and
\* existsSync() inside spool.read().  A path that does not exist makes read()
\* return null without I/O, and the write is started.
EnqueueItemStep(e, item) ==
  /\ enq[e].pc = "idle"
  /\ LET second == fresh[item.id].rec # NoRec /\ fresh[item.id].returned
         f == [IdleEnq EXCEPT !.item = item, !.second = second]
     IN  IF IdempotencyHas(item.id)
         THEN /\ enq' = [enq EXCEPT ![e] = IdleEnq]
              /\ last' = EnqueueReturned(item.id, "tracker", second)
         ELSE IF SpoolRead(spool, item.id) = NoRec
         THEN /\ enq' = [enq EXCEPT ![e] = [f EXCEPT !.pc = "write"]]
              /\ last' = NoEvent
         ELSE /\ enq' = [enq EXCEPT ![e] = [f EXCEPT !.pc = "read"]]
              /\ last' = NoEvent
  /\ UNCHANGED <<spool, processed, keys, flushTimer, processor, isProcessing,
                 maxRetries, maxSize, call, plugin, recent, now, fl, cln, acked, fresh, sd>>

\* enqueue() called with the item a producer builds for the id i
EnqueueCallStep(e, i) == EnqueueItemStep(e, NewItem(i, now))

\* the same, called from outside the plugin's event handler
EnqueueCall(e, i) == EnqueueCallStep(e, i) /\ UNCHANGED ev

\* the items the type QueueItem allows a caller to pass
ItemRetryCounts == 0..MaxRetriesBound
PassedItems ==
  {[NewItem(i, now) EXCEPT !.status = st, !.retryCount = n] :
      i \in Ids, st \in Statuses, n \in ItemRetryCounts}

\* enqueue() called with any item
EnqueueItem(e, item) == EnqueueItemStep(e, item) /\ UNCHANGED ev

\* a duplicate check that lets the item passed in replace the record
EnqueueReadOverwrites(e) ==
  /\ enq[e].pc = "read"
  /\ spool' = IF SpoolRead(spool, enq[e].item.id) # NoRec
              THEN SpoolWrite(spool, enq[e].item) ELSE spool
  /\ IF SpoolRead(spool, enq[e].item.id) # NoRec
     THEN /\ enq' = [enq EXCEPT ![e] = IdleEnq]
          /\ processed' = TrackerAdd(enq[e].item.id)[1]
          /\ keys' = TrackerAdd(enq[e].item.id)[2]
          /\ last' = EnqueueReturned(enq[e].item.id, "spool", enq[e].second)
     ELSE /\ enq' = [enq EXCEPT ![e].pc = "write"]
          /\ last' = NoEvent
          /\ UNCHANGED <<processed, keys>>
  /\ UNCHANGED <<flushTimer, processor, isProcessing, maxRetries, maxSize, call, plugin, recent, now,
                 fl, cln, acked, fresh, sd>>

\* spool.read() of an existing path resolves: an existing record is a
\* duplicate (added to the tracker, rejected); a file deleted meanwhile makes
\* text() fail, read() returns null and the write is started.
EnqueueReadStep(e) ==
  /\ enq[e].pc = "read"
  /\ IF SpoolRead(spool, enq[e].item.id) # NoRec
     THEN /\ enq' = [enq EXCEPT ![e] = IdleEnq]
          /\ processed' = TrackerAdd(enq[e].item.id)[1]
          /\ keys' = TrackerAdd(enq[e].item.id)[2]
          /\ last' = EnqueueReturned(enq[e].item.id, "spool", enq[e].second)
     ELSE /\ enq' = [enq EXCEPT ![e].pc = "write"]
          /\ last' = NoEvent
          /\ UNCHANGED <<processed, keys>>
  /\ UNCHANGED <<spool, flushTimer, processor, isProcessing, maxRetries, maxSize, call, plugin, recent, now,
                 fl, cln, acked, fresh, sd>>

\* the same, called from outside the plugin's event handler
EnqueueRead(e) == EnqueueReadStep(e) /\ UNCHANGED ev

\* the batch of the flush() with frame f is collected
Collected(f) == f.pc \in {"mark", "deliver", "record", "cleanup"}

\* spool.write(item) takes effect.  track: the frames of the flush() calls
\* past their collection remember the id in `late`
EnqueueWriteTracked(e, track) ==
  /\ enq[e].pc = "write"
  /\ spool' = SpoolWrite(spool, enq[e].item)
  /\ enq' = [x \in EnqCallers |->
               IF x = e THEN [enq[x] EXCEPT !.pc = "resume"]
               ELSE IF enq[x].item.id = enq[e].item.id THEN [enq[x] EXCEPT !.second = FALSE]
               ELSE enq[x]]
  /\ fresh' = [fresh EXCEPT ![enq[e].item.id] = [rec |-> enq[e].item, returned |-> FALSE]]
  /\ fl' = [s \in FlushSlots |->
              [fl[s] EXCEPT !.okKept = @ \ {enq[e].item.id},
                            !.late = IF track /\ Collected(fl[s]) THEN @ \cup {enq[e].item.id}
                                     ELSE @]]
  /\ acked' = acked \ {enq[e].item.id}
  /\ last' = NoEvent
  /\ UNCHANGED <<processed, keys, flushTimer, processor, isProcessing, maxRetries, maxSize, call, plugin, recent,
                 now, cln, sd>>

\* spool.write(item) takes effect
EnqueueWriteStep(e) == EnqueueWriteTracked(e, FALSE)

\* the same, called from outside the plugin's event handler, remembered by
\* the flush() calls in progress
EnqueueWriteLate(e) == EnqueueWriteTracked(e, TRUE) /\ UNCHANGED ev

\* an enqueue() whose write waits for the running flush() to end
EnqueueWriteAfterFlush(e) ==
  /\ ~isProcessing
  /\ enq[e].pc = "write"
  /\ spool' = SpoolWrite(spool, enq[e].item)
  /\ enq' = [enq EXCEPT ![e].pc = "resume"]
  /\ fresh' = [fresh EXCEPT ![enq[e].item.id] = [rec |-> enq[e].item, returned |-> FALSE]]
  /\ fl' = [s \in FlushSlots |-> [fl[s] EXCEPT !.okKept = @ \ {enq[e].item.id}]]
  /\ acked' = acked \ {enq[e].item.id}
  /\ last' = NoEvent
  /\ UNCHANGED <<processed, keys, flushTimer, processor, isProcessing, maxRetries, maxSize, call, plugin, ev, recent,
                 now, cln, sd>>

\* the same, called from outside the plugin's event handler
EnqueueWrite(e) == EnqueueWriteStep(e) /\ UNCHANGED ev

\* enqueue() resumes after the write: tracker.add, return true
EnqueueResumeStep(e) ==
  /\ enq[e].pc = "resume"
  /\ processed' = TrackerAdd(enq[e].item.id)[1]
  /\ keys' = TrackerAdd(enq[e].item.id)[2]
  /\ enq' = [x \in EnqCallers |->
               IF x = e THEN IdleEnq
               ELSE IF enq[x].pc # "idle" /\ enq[x].item.id = enq[e].item.id
                    THEN [enq[x] EXCEPT !.won = TRUE]
               ELSE enq[x]]
  /\ acked' = IF spool[enq[e].item.id] # NoRec THEN acked \cup {enq[e].item.id} ELSE acked
  /\ fresh' = [fresh EXCEPT ![enq[e].item.id] =
                 IF @.rec = enq[e].item THEN [@ EXCEPT !.returned = TRUE] ELSE @]
  /\ last' = EnqueueReturned(enq[e].item.id, "accepted", enq[e].second)
  /\ UNCHANGED <<spool, flushTimer, processor, isProcessing, maxRetries, maxSize, call, plugin, recent, now,
                 fl, cln, sd>>

\* the same, called from outside the plugin's event handler
EnqueueResume(e) == EnqueueResumeStep(e) /\ UNCHANGED ev

(***************************************************************************)
(* QueueManager.flush                                                      *)
(***************************************************************************)
\* a flush() without the guard
FlushGuardOff == FALSE

\* if (this.isProcessing) return 0
FlushGuard == isProcessing

\* a flush() without the finally block: the flag stays as it is
FlagKept == isProcessing

\* finally { this.isProcessing = false }
FlagReleased == FALSE

\* a flush() without the second guard
ProcessorMissingOff == FALSE

\* if (!this.processor) return 0
ProcessorMissing == ~processor

\* a flush() that recovers the items left in processing
FlushStatusesStale == <<"pending", "processing">>

\* a flush() that collects dead items in place of failed ones
FlushStatusesDead == <<"pending", "dead">>

\* the statuses flush() collects, in order
FlushStatuses == <<"pending", "failed">>

\* getRetryDelay(retryCount): retryBaseDelay * 2 ** retryCount
GetRetryDelay(retryCount) == RetryBaseDelay * 2^retryCount

\* a batch that leaves out the failed items whose delay has not elapsed at t
ToProcessWhenDue(pending, failed, t) ==
  pending \o SelectSeq(failed, LAMBDA r : t - r.lastAttemptAt >= GetRetryDelay(r.retryCount))

\* toProcess = [...pending, ...failed]
ToProcess(pending, failed, t) == pending \o failed

\* a loop body that leaves the item as it was collected
MarkNothing(item, t) == item

\* item.status = 'processing'; item.lastAttemptAt = Date.now()
MarkProcessing(item, t) == [item EXCEPT !.status = "processing", !.lastAttemptAt = t]

\* the comparison of the catch branch with > in place of >=
StatusAfterFailureStrict(rc) == IF rc > maxRetries THEN "dead" ELSE "failed"

\* the status after a failed attempt that left the item with retryCount rc
StatusAfterFailure(rc) == IF rc >= maxRetries THEN "dead" ELSE "failed"

\* the catch branch: retryCount++, error, dead or failed
OnFailure(item) ==
  [item EXCEPT !.retryCount = item.retryCount + 1, !.error = TRUE,
               !.status = StatusAfterFailure(item.retryCount + 1)]

\* The next iteration of the loop over toProcess starts (the item is marked
\* in memory and its write is started), or the loop is over and cleanup()
\* is called (it reads the clock and starts listAll()).
Continue(s, f, batch) ==
  IF batch # <<>>
  THEN /\ fl' = [fl EXCEPT ![s] = [f EXCEPT !.pc = "mark", !.batch = Tail(batch),
                                            !.item = MarkProcessing(Head(batch), now),
                                            !.io = FALSE]]
       /\ UNCHANGED cln
  ELSE /\ fl' = [fl EXCEPT ![s] = [f EXCEPT !.pc = "cleanup", !.batch = <<>>, !.item = NoRec,
                                            !.io = FALSE, !.collected = <<>>, !.called = <<>>]]
       /\ cln' = [cln EXCEPT ![s] = [IdleCleanup EXCEPT !.pc = "list", !.at = now]]

\* The calls take the lowest free frame
FreeSlot(s) == fl[s].pc = "idle" /\ \A t \in FlushSlots : t < s => fl[t].pc # "idle"

\* flush() up to its first suspension: the two guards, then
\* getByStatus('pending') is started.  `missed` is what a shutdown() that
\* resolves with this return leaves unattempted.
FlushEnter(s, via, missed) ==
  IF FlushGuard THEN
     /\ last' = FlushReturned(via, "skipped", 0, {}, {}, missed)
     /\ UNCHANGED <<fl, isProcessing, fresh, enq>>
  ELSE IF ProcessorMissing THEN
     /\ last' = FlushReturned(via, "noprocessor", 0, {}, {}, missed)
     /\ UNCHANGED <<fl, isProcessing, fresh, enq>>
  ELSE
     /\ fl' = [fl EXCEPT ![s] = [IdleFlush EXCEPT !.shutdown = (via = "shutdown"), !.pc = "pending"]]
     /\ isProcessing' = TRUE
     /\ fresh' = Disturbed
     /\ enq' = EnqDisturbed
     /\ last' = NoEvent

\* a flush() call of a caller, or of the interval timer while it is set
FlushCall(s, via) ==
  /\ FreeSlot(s)
  /\ via = "timer" => flushTimer
  /\ FlushEnter(s, via, {})
  /\ UNCHANGED <<spool, processed, keys, flushTimer, processor, maxRetries, maxSize, call, plugin, ev, recent, now,
                 cln, acked, sd>>

\* getByStatus('pending') resolves, getByStatus('failed') is started
FlushCollectPending(s) ==
  /\ fl[s].pc = "pending"
  /\ fl' = [fl EXCEPT ![s].pc = "failed", ![s].batch = GetByStatus(spool, FlushStatuses[1])]
  /\ fresh' = Disturbed
  /\ enq' = EnqDisturbed
  /\ last' = NoEvent
  /\ UNCHANGED <<spool, processed, keys, flushTimer, processor, isProcessing,
                 maxRetries, maxSize, call, plugin, ev, recent, now, cln, acked, sd>>

\* getByStatus('failed') resolves: toProcess = [...pending, ...failed]
FlushCollectFailed(s) ==
  /\ fl[s].pc = "failed"
  /\ LET toProcess == ToProcess(fl[s].batch, GetByStatus(spool, FlushStatuses[2]), now) IN
       Continue(s, [fl[s] EXCEPT !.collected = [k \in 1..Len(toProcess) |-> toProcess[k].id]],
                toProcess)
  /\ fresh' = Disturbed
  /\ enq' = EnqDisturbed
  /\ last' = NoEvent
  /\ UNCHANGED <<spool, processed, keys, flushTimer, processor, isProcessing,
                 maxRetries, maxSize, call, plugin, ev, recent, now, acked, sd>>

\* the write of the item marked processing takes effect, and the processor is called
FlushMark(s) ==
  /\ fl[s].pc = "mark"
  /\ spool' = SpoolWrite(spool, fl[s].item)
  /\ fl' = [fl EXCEPT ![s].pc = "deliver", ![s].called = Append(@, fl[s].item.id)]
  /\ sd' = [sd EXCEPT !.missed = @ \ {fl[s].item.id}]
  /\ fresh' = Disturbed
  /\ enq' = EnqDisturbed
  /\ last' = NoEvent
  /\ UNCHANGED <<processed, keys, flushTimer, processor, isProcessing, maxRetries, maxSize, call, plugin, ev, recent,
                 now, cln, acked>>

\* the processor resolves: this.spool.delete(item.id); processed++.
\* track: the id is remembered in recent.delivered
ProcessorSucceedsTracked(s, track) ==
  /\ fl[s].pc = "deliver"
  /\ spool' = SpoolDelete(spool, fl[s].item.id)
  /\ Continue(s, [fl[s] EXCEPT !.processed = @ + 1, !.ok = @ \cup {fl[s].item.id},
                               !.okKept = @ \cup {fl[s].item.id}], fl[s].batch)
  /\ acked' = acked \ {fl[s].item.id}
  /\ fresh' = Disturbed
  /\ enq' = EnqDisturbed
  /\ last' = NoEvent
  /\ recent' = IF track THEN [recent EXCEPT !.delivered = @ \cup {fl[s].item.id}] ELSE recent
  /\ UNCHANGED <<processed, keys, flushTimer, processor, isProcessing, maxRetries, maxSize, call, plugin, ev,
                 now, sd>>

\* the processor resolves
ProcessorSucceeds(s) == ProcessorSucceedsTracked(s, FALSE)

\* the same, the id remembered as delivered
ProcessorSucceedsOnce(s) == ProcessorSucceedsTracked(s, TRUE)

\* the processor rejects: the catch branch changes the item and starts its write
ProcessorFails(s) ==
  /\ fl[s].pc = "deliver"
  /\ fl' = [fl EXCEPT ![s].pc = "record", ![s].item = OnFailure(fl[s].item)]
  /\ fresh' = Disturbed
  /\ enq' = EnqDisturbed
  /\ last' = NoEvent
  /\ UNCHANGED <<spool, processed, keys, flushTimer, processor, isProcessing,
                 maxRetries, maxSize, call, plugin, ev, recent, now, cln, acked, sd>>

\* a catch branch that leaves the loop: the rest of toProcess is not attempted
FlushRecordLeavesLoop(s) ==
  /\ fl[s].pc = "record"
  /\ spool' = SpoolWrite(spool, fl[s].item)
  /\ Continue(s, fl[s], <<>>)
  /\ fresh' = Disturbed
  /\ enq' = EnqDisturbed
  /\ last' = NoEvent
  /\ UNCHANGED <<processed, keys, flushTimer, processor, isProcessing, maxRetries, maxSize, call, plugin, ev, recent,
                 now, acked, sd>>

\* the write of the failed or dead item takes effect
FlushRecord(s) ==
  /\ fl[s].pc = "record"
  /\ spool' = SpoolWrite(spool, fl[s].item)
  /\ Continue(s, fl[s], fl[s].batch)
  /\ fresh' = Disturbed
  /\ enq' = EnqDisturbed
  /\ last' = NoEvent
  /\ UNCHANGED <<processed, keys, flushTimer, processor, isProcessing, maxRetries, maxSize, call, plugin, ev, recent,
                 now, acked, sd>>

\* the ids of S that have a record
Present(S) == {i \in S : spool[i] # NoRec}

\* cleanup() has resolved: finally { this.isProcessing = false }; return processed
FlushReturn(s) ==
  /\ fl[s].pc = "cleanup"
  /\ cln[s].pc = "done"
  /\ fl' = [fl EXCEPT ![s] = IdleFlush]
  /\ cln' = [cln EXCEPT ![s] = IdleCleanup]
  /\ isProcessing' = FlagReleased
  /\ last' = FlushReturned(IF fl[s].shutdown THEN "shutdown" ELSE "flush", "done",
                           fl[s].processed, Present(fl[s].ok), Present(fl[s].okKept),
                           IF fl[s].shutdown THEN sd.missed ELSE {})
  /\ sd' = IF fl[s].shutdown THEN NoShutdown ELSE sd
  /\ fresh' = Disturbed
  /\ enq' = EnqDisturbed
  /\ UNCHANGED <<spool, processed, keys, flushTimer, processor, maxRetries, maxSize, call, plugin, ev, recent, now, acked>>

(***************************************************************************)
(* SpoolManager.cleanup                                                    *)
(***************************************************************************)
\* `all = await this.listAll()` resolves
CleanupList(o) ==
  /\ cln[o].pc = "list"
  /\ cln' = [cln EXCEPT ![o].pc = "age", ![o].all = ListAll(spool)]
  /\ fresh' = Disturbed
  /\ enq' = EnqDisturbed
  /\ last' = NoEvent
  /\ UNCHANGED <<spool, processed, keys, flushTimer, processor, isProcessing,
                 maxRetries, maxSize, call, plugin, ev, recent, now, fl, acked, sd>>

\* the age loop over `all`; getStats() is started
CleanupAge(o) ==
  /\ cln[o].pc = "age"
  /\ spool' = DeleteAll(spool, Expired(cln[o].all, cln[o].at))
  /\ cln' = [cln EXCEPT ![o].pc = "stats", ![o].all = <<>>]
  /\ acked' = {i \in acked : spool'[i] # NoRec}
  /\ fresh' = Disturbed
  /\ enq' = EnqDisturbed
  /\ last' = CleanupPassed("age", {i \in Ids : spool[i] # NoRec /\ spool'[i] = NoRec})
  /\ UNCHANGED <<processed, keys, flushTimer, processor, isProcessing, maxRetries, maxSize, call, plugin, ev, recent,
                 now, fl, sd>>

\* cleanup() is over: the detached call of start() is forgotten, flush() resumes
CleanupEnd(o) == IF o = 0 THEN IdleCleanup ELSE [IdleCleanup EXCEPT !.pc = "done"]

\* getStats() resolves; over the limit, the second listAll() is started
CleanupStats(o) ==
  /\ cln[o].pc = "stats"
  /\ LET size == SpoolSizeBytes(spool) IN
       IF size > SpoolMaxSize
       THEN cln' = [cln EXCEPT ![o].pc = "size", ![o].size = size]
       ELSE cln' = [cln EXCEPT ![o] = CleanupEnd(o)]
  /\ fresh' = Disturbed
  /\ enq' = EnqDisturbed
  /\ last' = NoEvent
  /\ UNCHANGED <<spool, processed, keys, flushTimer, processor, isProcessing,
                 maxRetries, maxSize, call, plugin, ev, recent, now, fl, acked, sd>>

\* `remaining = await this.listAll()` resolves; sort; the size loop
CleanupSize(o) ==
  /\ cln[o].pc = "size"
  /\ spool' = SizePass(spool, SortByCreatedAt(ListAll(spool)), cln[o].size)
  /\ cln' = [cln EXCEPT ![o] = CleanupEnd(o)]
  /\ acked' = {i \in acked : spool'[i] # NoRec}
  /\ fresh' = Disturbed
  /\ enq' = EnqDisturbed
  /\ last' = CleanupPassed("size", {i \in Ids : spool[i] # NoRec /\ spool'[i] = NoRec})
  /\ UNCHANGED <<processed, keys, flushTimer, processor, isProcessing, maxRetries, maxSize, call, plugin, ev, recent,
                 now, fl, sd>>

(***************************************************************************)
(* QueueManager: setProcessor, start, stop, shutdown; the process          *)
(***************************************************************************)
SetProcessor ==
  /\ ~processor
  /\ processor' = TRUE
  /\ last' = NoEvent
  /\ UNCHANGED <<spool, processed, keys, flushTimer, isProcessing, maxRetries, maxSize, call, plugin, ev, recent, now,
                 enq, fl, cln, acked, fresh, sd>>

\* start(): setInterval, and a detached cleanup()
Start ==
  /\ ~flushTimer
  /\ cln[0].pc = "idle"
  /\ ~sd.running
  /\ flushTimer' = TRUE
  /\ cln' = [cln EXCEPT ![0] = [IdleCleanup EXCEPT !.pc = "list", !.at = now]]
  /\ last' = NoEvent
  /\ UNCHANGED <<spool, processed, keys, processor, isProcessing, maxRetries, maxSize, call, plugin, ev, recent, now,
                 enq, fl, acked, fresh, sd>>

\* stop(): clearInterval
Stop ==
  /\ flushTimer
  /\ flushTimer' = FALSE
  /\ last' = NoEvent
  /\ UNCHANGED <<spool, processed, keys, processor, isProcessing, maxRetries, maxSize, call, plugin, ev, recent, now,
                 enq, fl, cln, acked, fresh, sd>>

\* the ids with work to deliver
Eligible(sp) == {i \in Ids : sp[i].status \in {"pending", "failed"}}

\* shutdown(): stop(); if (this.processor) await this.flush()
Shutdown(s) ==
  /\ FreeSlot(s)
  /\ ~sd.running
  /\ flushTimer' = FALSE
  /\ IF processor
     THEN /\ FlushEnter(s, "shutdown", Eligible(spool))
          /\ sd' = IF FlushGuard THEN NoShutdown
                   ELSE [running |-> TRUE, missed |-> Eligible(spool)]
     ELSE /\ last' = [NoEvent EXCEPT !.op = "shutdown", !.result = "noprocessor"]
          /\ UNCHANGED <<fl, isProcessing, fresh, enq, sd>>
  /\ UNCHANGED <<spool, processed, keys, processor, maxRetries, maxSize, call, plugin, ev, recent, now, cln, acked>>

\* the clock advances
Tick ==
  /\ now + 1 \in Clock
  /\ now' = now + 1
  /\ last' = NoEvent
  /\ UNCHANGED <<spool, processed, keys, flushTimer, processor, isProcessing,
                 maxRetries, maxSize, call, plugin, ev, recent, enq, fl, cln, acked, fresh, sd>>

\* The process dies and a new one constructs its QueueManager on the same
\* spool directory: only the files survive.
Restart ==
  /\ processed' = {}
  /\ keys' = <<>>
  /\ flushTimer' = FALSE
  /\ processor' = FALSE
  /\ isProcessing' = FALSE
  /\ enq' = [e \in EnqCallers |-> IdleEnq]
  /\ fl' = [s \in FlushSlots |-> IdleFlush]
  /\ cln' = [o \in CleanupOwners |-> IdleCleanup]
  /\ sd' = NoShutdown
  /\ last' = NoEvent
  /\ UNCHANGED <<spool, maxRetries, maxSize, call, plugin, ev, recent, now, acked, fresh>>

(***************************************************************************)
(* Spool I/O errors                                                        *)
(***************************************************************************)
\* an enqueue() that adds the id to the tracker before the write that rejects
EnqueueWriteFailsPoisons(e) ==
  /\ enq[e].pc = "write"
  /\ enq' = [enq EXCEPT ![e] = IdleEnq]
  /\ processed' = TrackerAdd(enq[e].item.id)[1]
  /\ keys' = TrackerAdd(enq[e].item.id)[2]
  /\ last' = EnqueueReturned(enq[e].item.id, "threw", enq[e].second)
  /\ UNCHANGED <<spool, flushTimer, processor, isProcessing,
                 maxRetries, maxSize, call, plugin, recent, now, fl, cln, acked, fresh, sd>>

\* Bun.write() rejects inside enqueue(): nothing catches it, enqueue() rejects
EnqueueWriteFailsStep(e) ==
  /\ enq[e].pc = "write"
  /\ enq' = [enq EXCEPT ![e] = IdleEnq]
  /\ last' = EnqueueReturned(enq[e].item.id, "threw", enq[e].second)
  /\ UNCHANGED <<spool, processed, keys, flushTimer, processor, isProcessing,
                 maxRetries, maxSize, call, plugin, recent, now, fl, cln, acked, fresh, sd>>

\* the same, called from outside the plugin's event handler
EnqueueWriteFails(e) == EnqueueWriteFailsStep(e) /\ UNCHANGED ev

\* Bun.file(path).text() rejects inside read(): caught, read() returns null
\* and enqueue() goes on to write
EnqueueReadFailsStep(e) ==
  /\ enq[e].pc = "read"
  /\ enq' = [enq EXCEPT ![e].pc = "write"]
  /\ last' = NoEvent
  /\ UNCHANGED <<spool, processed, keys, flushTimer, processor, isProcessing,
                 maxRetries, maxSize, call, plugin, recent, now, fl, cln, acked, fresh, sd>>

\* the same, called from outside the plugin's event handler
EnqueueReadFails(e) == EnqueueReadFailsStep(e) /\ UNCHANGED ev

(***************************************************************************)
(* Spool I/O errors inside flush() and cleanup()                           *)
(* io: the catch branch of the loop body was entered by a spool error      *)
(***************************************************************************)
\* the flush() of frame s rejects: finally { this.isProcessing = false }
FlushRejected(s) ==
  /\ fl' = [fl EXCEPT ![s] = IdleFlush]
  /\ cln' = [cln EXCEPT ![s] = IdleCleanup]
  /\ isProcessing' = FlagReleased
  /\ last' = FlushReturned(IF fl[s].shutdown THEN "shutdown" ELSE "flush", "threw",
                           fl[s].processed, {i \in fl[s].ok : spool'[i] # NoRec},
                           {i \in fl[s].okKept : spool'[i] # NoRec},
                           IF fl[s].shutdown THEN sd.missed ELSE {})
  /\ sd' = IF fl[s].shutdown THEN NoShutdown ELSE sd
  /\ fresh' = Disturbed
  /\ enq' = EnqDisturbed

\* readdirSync() throws inside getByStatus(): outside the loop, flush() rejects
FlushListFails(s) ==
  /\ fl[s].pc \in {"pending", "failed"}
  /\ UNCHANGED <<spool, processed, keys, flushTimer, processor, maxRetries, maxSize, call,
                 plugin, ev, recent, now, acked>>
  /\ FlushRejected(s)

\* the write of the item marked processing rejects: the catch branch of the
\* loop body takes it for a failed attempt; the processor is not called
FlushMarkFails(s) ==
  /\ fl[s].pc = "mark"
  /\ fl' = [fl EXCEPT ![s].pc = "record", ![s].item = OnFailure(fl[s].item), ![s].io = TRUE]
  /\ fresh' = Disturbed
  /\ enq' = EnqDisturbed
  /\ last' = NoEvent
  /\ UNCHANGED <<spool, processed, keys, flushTimer, processor, isProcessing,
                 maxRetries, maxSize, call, plugin, ev, recent, now, cln, acked, sd>>

\* the processor resolves and unlinkSync() throws inside spool.delete(): the
\* catch branch takes it for a failed attempt
FlushDeleteFails(s) ==
  /\ fl[s].pc = "deliver"
  /\ spool[fl[s].item.id] # NoRec
  /\ fl' = [fl EXCEPT ![s].pc = "record", ![s].item = OnFailure(fl[s].item), ![s].io = TRUE]
  /\ fresh' = Disturbed
  /\ enq' = EnqDisturbed
  /\ last' = NoEvent
  /\ UNCHANGED <<spool, processed, keys, flushTimer, processor, isProcessing,
                 maxRetries, maxSize, call, plugin, ev, recent, now, cln, acked, sd>>

\* the write of the catch branch rejects: nothing catches it, flush() rejects
FlushRecordFails(s) ==
  /\ fl[s].pc = "record"
  /\ UNCHANGED <<spool, processed, keys, flushTimer, processor, maxRetries, maxSize, call,
                 plugin, ev, recent, now, acked>>
  /\ FlushRejected(s)

\* the cleanup() of owner o rejects: the detached call of start() has its
\* error logged, the flush() that awaits the call rejects with it
CleanupRejected(o) ==
  IF o = 0
  THEN /\ cln' = [cln EXCEPT ![0] = IdleCleanup]
       /\ last' = [NoEvent EXCEPT !.op = "cleanup", !.result = "threw"]
       /\ fresh' = Disturbed
       /\ enq' = EnqDisturbed
       /\ UNCHANGED <<fl, isProcessing, sd>>
  ELSE FlushRejected(o)

\* readdirSync() throws inside a listAll() of cleanup(), or statSync() inside
\* getStats()
CleanupListFails(o) ==
  /\ cln[o].pc \in {"list", "stats", "size"}
  /\ cln[o].pc = "stats" => ListAll(spool) # <<>>
  /\ UNCHANGED <<spool, processed, keys, flushTimer, processor, maxRetries, maxSize, call,
                 plugin, ev, recent, now, acked>>
  /\ CleanupRejected(o)

\* the expired items of the listing, in its order
ExpiredSeq(all, at) == SelectSeq(all, LAMBDA r : r.id \in Expired(all, at))

\* the age loop: unlinkSync() throws at the k-th expired item that has a
\* file; the items before it are deleted, the loop is left, cleanup() rejects
CleanupAgeFails(o, k) ==
  /\ cln[o].pc = "age"
  /\ k \in 1..Len(ExpiredSeq(cln[o].all, cln[o].at))
  /\ spool[ExpiredSeq(cln[o].all, cln[o].at)[k].id] # NoRec
  /\ spool' = DeleteAll(spool, {ExpiredSeq(cln[o].all, cln[o].at)[j].id : j \in 1..(k - 1)})
  /\ acked' = {i \in acked : spool'[i] # NoRec}
  /\ CleanupRejected(o)
  /\ UNCHANGED <<processed, keys, flushTimer, processor, maxRetries, maxSize, call,
                 plugin, ev, recent, now>>

(***************************************************************************)
(* IdempotencyTracker on its own: add, remove, clear                       *)
(***************************************************************************)
\* a tracker call returned
TrackerReturned(op, k) == [NoEvent EXCEPT !.op = op, !.id = k]

\* what a strict FIFO of maxSize keys holds after add(k)
FifoAdd(s, k) ==
  IF k \in Range(s) THEN s
  ELSE IF Len(s) >= maxSize THEN Append(Tail(s), k)
  ELSE Append(s, k)

\* the keys of `order` that are still present after a call, and the key
\* the call made present
OrderAfter(order, before, after) ==
  LET added == after \ before
      kept == SelectSeq(order, LAMBDA x : x \in after)
  IN  IF added = {} THEN kept ELSE Append(kept, CHOOSE x \in added : TRUE)

\* tracker.has(k)
HasKey(k) ==
  /\ last' = [TrackerReturned("has", k) EXCEPT !.result = IF IdempotencyHas(k) THEN "true" ELSE "false"]
  /\ UNCHANGED <<spool, processed, keys, flushTimer, processor, isProcessing, maxRetries, maxSize, call,
                 plugin, ev, recent, now, enq, fl, cln, acked, fresh, sd>>

\* tracker.add(k)
AddKey(k) ==
  /\ processed' = TrackerAdd(k)[1]
  /\ keys' = TrackerAdd(k)[2]
  /\ recent' = [added |-> FifoAdd(recent.added, k),
                seen |-> recent.seen \cup {k},
                pure |-> recent.pure /\ k \notin recent.seen,
                order |-> OrderAfter(recent.order, processed, processed'),
                delivered |-> recent.delivered]
  /\ last' = TrackerReturned("add", k)
  /\ UNCHANGED <<spool, flushTimer, processor, isProcessing, maxRetries, maxSize, call, plugin, ev,
                 now, enq, fl, cln, acked, fresh, sd>>

\* tracker.remove(k)
RemoveKey(k) ==
  /\ processed' = TrackerRemove(k)[1]
  /\ keys' = TrackerRemove(k)[2]
  /\ recent' = [added |-> Splice(recent.added, k), seen |-> recent.seen, pure |-> FALSE,
                order |-> OrderAfter(recent.order, processed, processed'),
                delivered |-> recent.delivered]
  /\ last' = TrackerReturned("remove", k)
  /\ UNCHANGED <<spool, flushTimer, processor, isProcessing, maxRetries, maxSize, call, plugin, ev,
                 now, enq, fl, cln, acked, fresh, sd>>

\* tracker.clear(): the tracker is as it was after construction
ClearKeys ==
  /\ processed' = TrackerClear[1]
  /\ keys' = TrackerClear[2]
  /\ recent' = NoRecent
  /\ last' = TrackerReturned("clear", "none")
  /\ UNCHANGED <<spool, flushTimer, processor, isProcessing, maxRetries, maxSize, call, plugin, ev,
                 now, enq, fl, cln, acked, fresh, sd>>

(***************************************************************************)
(* Session id utilities: generateIdempotencyKey, sessionToUUID             *)
(* A string is the sequence of its characters.                             *)
(***************************************************************************)
\* the strings over Chars of length n, and of length at most n
RECURSIVE StringsOfLen(_)
StringsOfLen(n) ==
  IF n = 0 THEN {<<>>}
  ELSE {Append(w, c) : w \in StringsOfLen(n - 1), c \in Chars}

StringsUpTo(n) == UNION {StringsOfLen(k) : k \in 0..n}

DecimalDigits == <<"0", "1", "2", "3", "4", "5", "6", "7", "8", "9">>

\* `${timestamp}` of a non-negative integer
RECURSIVE NumberToString(_)
NumberToString(n) ==
  IF n < 10 THEN <<DecimalDigits[n + 1]>>
  ELSE NumberToString(n \div 10) \o <<DecimalDigits[(n % 10) + 1]>>

\* `${sessionId}:${messageId}:${timestamp}`
KeyInput(sessionId, messageId, timestamp) ==
  sessionId \o <<":">> \o messageId \o <<":">> \o NumberToString(timestamp)

\* Bun.hash(input): a value that depends on nothing but the characters of the
\* input, here one of as many values as the spool has ids
RECURSIVE CharSum(_)
CharSum(w) ==
  IF w = <<>> THEN 0
  ELSE (CHOOSE k \in 1..Len(CharTable) : CharTable[k] = Head(w)) + CharSum(Tail(w))

BunHash(w) == IdOrder[(CharSum(w) % Len(IdOrder)) + 1]

\* generateIdempotencyKey
GenerateIdempotencyKey(sessionId, messageId, timestamp) ==
  BunHash(KeyInput(sessionId, messageId, timestamp))

\* the arguments of two generateIdempotencyKey calls
KeyTriples == [sessionId : StringsUpTo(MaxStrLen), messageId : StringsUpTo(MaxStrLen),
               timestamp : Clock]

\* generateIdempotencyKey is called for two triples
GenerateKeys ==
  /\ call.fn = "keyArgs"
  /\ call' = [fn |-> "generateIdempotencyKey", a |-> call.a, b |-> call.b,
              inputA |-> KeyInput(call.a.sessionId, call.a.messageId, call.a.timestamp),
              inputB |-> KeyInput(call.b.sessionId, call.b.messageId, call.b.timestamp),
              keyA |-> GenerateIdempotencyKey(call.a.sessionId, call.a.messageId,
                                              call.a.timestamp),
              keyB |-> GenerateIdempotencyKey(call.b.sessionId, call.b.messageId,
                                              call.b.timestamp)]
  /\ UNCHANGED <<spool, processed, keys, flushTimer, processor, isProcessing,
                 maxRetries, maxSize, now, enq, fl, cln, acked, fresh, sd, last,
                 recent, plugin, ev>>

HexDigits == <<"0", "1", "2", "3", "4", "5", "6", "7", "8", "9",
               "a", "b", "c", "d", "e", "f">>

\* n.toString(16) of a non-negative integer
RECURSIVE ToHex(_)
ToHex(n) ==
  IF n < 16 THEN <<HexDigits[n + 1]>>
  ELSE ToHex(n \div 16) \o <<HexDigits[(n % 16) + 1]>>

\* a padStart() that pads nothing
PadStartNone(w, n, c) == w

\* w.padStart(n, c)
RECURSIVE PadStart(_, _, _)
PadStart(w, n, c) == IF Len(w) >= n THEN w ELSE PadStart(<<c>> \o w, n, c)

\* w.slice(from, to): characters from..to-1, counted from 0, cut at the end of w
Slice(w, from, to) == SubSeq(w, from + 1, IF to < Len(w) THEN to ELSE Len(w))

\* the hexadecimal digits of the lower words, four for each
RECURSIVE WordsPadded(_)
WordsPadded(words) ==
  IF words = <<>> THEN <<>>
  ELSE PadStart(ToHex(Head(words)), 4, "0") \o WordsPadded(Tail(words))

\* The 64-bit value Bun.hash returns is kept as its four 16-bit words, the
\* most significant first.  hash.toString(16): no leading zeros
RECURSIVE HashToString16(_)
HashToString16(words) ==
  IF Len(words) = 1 THEN ToHex(words[1])
  ELSE IF Head(words) = 0 THEN HashToString16(Tail(words))
  ELSE ToHex(Head(words)) \o WordsPadded(Tail(words))

\* sessionToUUID, from the value Bun.hash(sessionId) returned
SessionToUUID(hash) ==
  LET hashHex == PadStart(HashToString16(hash), 16, "0")
      fullHex == Slice(hashHex \o hashHex, 0, 32)
  IN  Slice(fullHex, 0, 8) \o <<"-">> \o Slice(fullHex, 8, 12) \o <<"-">> \o
      Slice(fullHex, 12, 16) \o <<"-">> \o Slice(fullHex, 16, 20) \o <<"-">> \o
      Slice(fullHex, 20, 32)

\* isValidUUID: /^[0-9a-f]{8}-[0-9a-f]{4}-[0-9a-f]{4}-[0-9a-f]{4}-[0-9a-f]{12}$/i
IsValidUUID(uuid) ==
  /\ Len(uuid) = 36
  /\ \A k \in 1..Len(uuid) :
       IF k \in {9, 14, 19, 24} THEN uuid[k] = "-" ELSE uuid[k] \in Range(HexDigits)

\* the values Bun.hash can return
HashValues == [1..4 -> WordValues]

\* sessionToUUID is called, Bun.hash returning call.hash
SessionToUUIDCall ==
  /\ call.fn = "uuidArgs"
  /\ call' = [fn |-> "sessionToUUID", hash |-> call.hash, uuid |-> SessionToUUID(call.hash)]
  /\ UNCHANGED <<spool, processed, keys, flushTimer, processor, isProcessing,
                 maxRetries, maxSize, now, enq, fl, cln, acked, fresh, sd, last,
                 recent, plugin, ev>>

(***************************************************************************)
(* The plugin: handleSessionIdle                                           *)
(***************************************************************************)
\* the id of the session the collectors hold data of, and the literal
\* 'transcript' (one character stands for it)
SessionId == <<"x">>
TranscriptLiteral == <<"t">>

\* TranscriptBuilder.build(): assembledAt is Date.now()
AssembledAt == now

\* session.idle is delivered while the collectors hold data, unchanged since
\* any earlier delivery: handleSessionIdle builds the transcript and the
\* item, and calls enqueue(), which runs up to its first suspension
SessionIdle(e) ==
  EnqueueCall(e, GenerateIdempotencyKey(SessionId, TranscriptLiteral, AssembledAt))

(***************************************************************************)
(* The plugin: the event handler                                           *)
(***************************************************************************)
EventTypes == {"session.created", "message.updated", "session.idle", "other"}

\* a catch block that throws the error again
CaughtRethrows == "rejected"

\* catch (error) { log.error(...) }: the handler's promise resolves
Caught == "resolved"

\* the handler's promise settles; caught: where an exception was thrown
EventSettled(h, result, caught) ==
  /\ ev' = [ev EXCEPT ![h] = IdleHandler]
  /\ last' = [NoEvent EXCEPT !.op = "event", !.id = ev[h].type, !.result = result,
                             !.caught = caught]

\* the event enters the handler h and the handler's promise settles at once
EventSettledAtOnce(h, type, result, caught) ==
  /\ ev' = [ev EXCEPT ![h] = IdleHandler]
  /\ last' = [NoEvent EXCEPT !.op = "event", !.id = type, !.result = result,
                             !.caught = caught]

\* transcriptBuilder.hasData()
HasData(pl) == pl.session /\ pl.messages

\* handleSessionEvent, handleMessageEvent: a collector takes the event or
\* throws on it; an event of another type is ignored.  pl: the closure's
\* variables as the routing starts.
RouteCollectors(type, pl) ==
  \/ /\ type = "session.created"
     /\ plugin' = [pl EXCEPT !.session = TRUE]
     /\ last' = [NoEvent EXCEPT !.op = "event", !.id = type, !.result = "resolved"]
  \/ /\ type = "message.updated"
     /\ plugin' = [pl EXCEPT !.messages = TRUE]
     /\ last' = [NoEvent EXCEPT !.op = "event", !.id = type, !.result = "resolved"]
  \/ /\ type \in {"session.created", "message.updated"}
     /\ plugin' = pl
     /\ last' = [NoEvent EXCEPT !.op = "event", !.id = type, !.result = Caught,
                                !.caught = "collector"]
  \/ /\ type = "other"
     /\ plugin' = pl
     /\ last' = [NoEvent EXCEPT !.op = "event", !.id = type, !.result = "resolved"]

\* the first event: initialized = true; state = await initializeState(client)
EventFirst(h, type) ==
  /\ ev[h].pc = "idle"
  /\ ~plugin.initialized
  /\ plugin' = [plugin EXCEPT !.initialized = TRUE]
  /\ ev' = [ev EXCEPT ![h] = [IdleHandler EXCEPT !.pc = "init", !.type = type]]
  /\ last' = NoEvent
  /\ UNCHANGED <<spool, processed, keys, flushTimer, processor, isProcessing, maxRetries,
                 maxSize, call, recent, now, enq, fl, cln, acked, fresh, sd>>

\* initializeState() resolves with null (invalid configuration, disabled, no
\* API key) or with the state, the queue manager started; the handler goes
\* on with its event, the collectors being empty
InitializeResolves(h, st) ==
  /\ ev[h].pc = "init"
  /\ LET pl == [plugin EXCEPT !.state = st]
     IN  /\ IF st = "state"
            THEN /\ processor' = TRUE
                 /\ flushTimer' = TRUE
                 /\ cln' = [cln EXCEPT ![0] = [IdleCleanup EXCEPT !.pc = "list", !.at = now]]
            ELSE UNCHANGED <<processor, flushTimer, cln>>
         /\ IF st = "null" \/ ev[h].type = "session.idle"
            THEN /\ plugin' = pl
                 /\ last' = [NoEvent EXCEPT !.op = "event", !.id = ev[h].type,
                                            !.result = "resolved"]
            ELSE RouteCollectors(ev[h].type, pl)
  /\ ev' = [ev EXCEPT ![h] = IdleHandler]
  /\ UNCHANGED <<spool, processed, keys, isProcessing, maxRetries, maxSize, call, recent,
                 now, enq, fl, acked, fresh, sd>>

\* initializeState() throws: state stays null, initialized stays true
InitializeThrows(h) ==
  /\ ev[h].pc = "init"
  /\ EventSettled(h, Caught, "initialization")
  /\ UNCHANGED <<spool, processed, keys, flushTimer, processor, isProcessing, maxRetries,
                 maxSize, call, plugin, recent, now, enq, fl, cln, acked, fresh, sd>>

\* an event while state is null: if (!state) return.  lost: an event that
\* has a collector or a handler returned here while initializeState() was
\* still awaited
EventDropped(h, type) ==
  /\ ev[h].pc = "idle"
  /\ plugin.initialized /\ plugin.state = "null"
  /\ EventSettledAtOnce(h, type, "resolved", "none")
  /\ plugin' = [plugin EXCEPT !.lost = @ \/ (type # "other" /\ \E g \in Handlers : ev[g].pc = "init")]
  /\ UNCHANGED <<spool, processed, keys, flushTimer, processor, isProcessing, maxRetries,
                 maxSize, call, recent, now, enq, fl, cln, acked, fresh, sd>>

\* an event routed to a collector
EventCollect(h, type) ==
  /\ ev[h].pc = "idle"
  /\ plugin.initialized /\ plugin.state # "null"
  /\ type # "session.idle"
  /\ RouteCollectors(type, plugin)
  /\ ev' = [ev EXCEPT ![h] = IdleHandler]
  /\ UNCHANGED <<spool, processed, keys, flushTimer, processor, isProcessing, maxRetries,
                 maxSize, call, recent, now, enq, fl, cln, acked, fresh, sd>>

\* handleSessionIdle without data, or with data and format() throwing
EventIdleReturns(h) ==
  /\ ev[h].pc = "idle"
  /\ plugin.initialized /\ plugin.state # "null"
  /\ IF ~HasData(plugin)
     THEN EventSettledAtOnce(h, "session.idle", "resolved", "none")
     ELSE EventSettledAtOnce(h, "session.idle", Caught, "formatting")
  /\ UNCHANGED <<spool, processed, keys, flushTimer, processor, isProcessing, maxRetries,
                 maxSize, call, plugin, recent, now, enq, fl, cln, acked, fresh, sd>>

\* the handler h awaits its enqueue() call: when the call has returned or
\* thrown, the handler has the outcome
Awaited(h, type) ==
  ev' = [ev EXCEPT ![h] =
           IF enq'[h].pc = "idle"
           THEN [IdleHandler EXCEPT !.pc = "settled", !.type = type, !.enqueued = last'.result]
           ELSE [IdleHandler EXCEPT !.pc = "enqueue", !.type = type]]

\* handleSessionIdle with data: the transcript is built and formatted, the
\* item made, enqueue() called
EventIdleEnqueue(h) ==
  /\ ev[h].pc = "idle"
  /\ plugin.initialized /\ plugin.state # "null"
  /\ HasData(plugin)
  /\ EnqueueCallStep(h, GenerateIdempotencyKey(SessionId, TranscriptLiteral, AssembledAt))
  /\ Awaited(h, "session.idle")

\* the event handler is called with an event
EventCall(h, type) ==
  \/ EventFirst(h, type)
  \/ EventDropped(h, type)
  \/ EventCollect(h, type)
  \/ type = "session.idle" /\ EventIdleReturns(h)
  \/ type = "session.idle" /\ EventIdleEnqueue(h)

\* the steps of the enqueue() call the handler awaits
EventEnqueueRead(h) == ev[h].pc = "enqueue" /\ EnqueueReadStep(h) /\ Awaited(h, ev[h].type)
EventEnqueueReadFails(h) ==
  ev[h].pc = "enqueue" /\ EnqueueReadFailsStep(h) /\ Awaited(h, ev[h].type)
EventEnqueueWrite(h) == ev[h].pc = "enqueue" /\ EnqueueWriteStep(h) /\ Awaited(h, ev[h].type)
EventEnqueueWriteFails(h) ==
  ev[h].pc = "enqueue" /\ EnqueueWriteFailsStep(h) /\ Awaited(h, ev[h].type)
EventEnqueueResume(h) == ev[h].pc = "enqueue" /\ EnqueueResumeStep(h) /\ Awaited(h, ev[h].type)

\* handleSessionIdle resumes after enqueue(): an exception reaches the
\* handler's catch; true is followed by await showToast(); false returns
EventResume(h) ==
  /\ ev[h].pc = "settled"
  /\ IF ev[h].enqueued = "threw" THEN EventSettled(h, Caught, "enqueue")
     ELSE IF ev[h].enqueued = "accepted"
     THEN /\ ev' = [ev EXCEPT ![h].pc = "toast"]
          /\ last' = NoEvent
     ELSE EventSettled(h, "resolved", "none")
  /\ UNCHANGED <<spool, processed, keys, flushTimer, processor, isProcessing, maxRetries,
                 maxSize, call, plugin, recent, now, enq, fl, cln, acked, fresh, sd>>

\* showToast() resolves (it catches what client.tui.showToast throws)
EventToast(h) ==
  /\ ev[h].pc = "toast"
  /\ EventSettled(h, "resolved", "none")
  /\ UNCHANGED <<spool, processed, keys, flushTimer, processor, isProcessing, maxRetries,
                 maxSize, call, plugin, recent, now, enq, fl, cln, acked, fresh, sd>>

(***************************************************************************)
(* TranscriptFormatter.format, ContentFilter, Redactor                     *)
(* A part's content is one character; a text is a sequence of characters   *)
(* and of the literal pieces of the templates.                             *)
(***************************************************************************)
MaxParts == 2
TranscriptLengths == {0, 1, 2}
ExportModes == {"full", "metadata_only"}
Roles == {"user", "assistant"}
PartTypes == {"text", "tool_call"}
PartContents == {"p", "q"}
\* message.model: "" stands for undefined
ModelNames == {"", "m"}
\* the configured redaction patterns: each matches one character
RedactPatterns == {"q"}

\* the messages a transcript can hold before their parts get a content
PartTypeSeqs == UNION {[1..n -> PartTypes] : n \in 0..MaxParts}
MessageShapes ==
  {[role |-> r, model |-> m, types |-> ts] :
      r \in Roles, m \in ModelNames, ts \in PartTypeSeqs}
TranscriptShapes == UNION {[1..n -> MessageShapes] : n \in TranscriptLengths}
PartFills == [1..MaxParts -> PartContents]
UniformFills == {[j \in 1..MaxParts |-> c] : c \in PartContents}

\* the transcript of shape s whose j-th part of every message has content
\* fill[j]
Fill(s, fill) ==
  [i \in 1..Len(s) |->
     [role |-> s[i].role, model |-> s[i].model,
      parts |-> [j \in 1..Len(s[i].types) |->
                   [type |-> s[i].types[j], content |-> fill[j]]]]]

\* two transcripts that differ in the content strings of their parts only
SameButContent(a, b) ==
  /\ Len(a) = Len(b)
  /\ \A i \in 1..Len(a) :
       /\ a[i].role = b[i].role /\ a[i].model = b[i].model
       /\ Len(a[i].parts) = Len(b[i].parts)
       /\ \A j \in 1..Len(a[i].parts) : a[i].parts[j].type = b[i].parts[j].type

\* ContentFilter.includeContent()
IncludeContentAlways(mode) == TRUE
IncludeContent(mode) == mode = "full"

\* Redactor.redact(): every match of a pattern becomes the placeholder
Redact(w) ==
  [i \in 1..Len(w) |-> IF w[i] \in RedactPatterns THEN "[REDACTED]" ELSE w[i]]

\* Array.prototype.join
RECURSIVE Join(_, _)
Join(ws, sep) ==
  IF Len(ws) = 0 THEN <<>>
  ELSE IF Len(ws) = 1 THEN ws[1]
  ELSE ws[1] \o <<sep>> \o Join(Tail(ws), sep)

\* [...new Set(ws)]: the first occurrence of each element, in order
RECURSIVE Unique(_)
Unique(ws) ==
  IF Len(ws) = 0 THEN <<>>
  ELSE LET init == Unique(SubSeq(ws, 1, Len(ws) - 1))
       IN IF ws[Len(ws)] \in Range(init) THEN init ELSE Append(init, ws[Len(ws)])

\* formatMessage(): the contents of the text and tool_result parts, joined
\* by newlines
FormatMessage(message) ==
  LET textParts == SelectSeq(message.parts,
                             LAMBDA p : p.type = "text" \/ p.type = "tool_result")
  IN [role |-> message.role,
      content |-> Join([i \in 1..Len(textParts) |-> <<textParts[i].content>>], "\n")]

\* extractMetadata()
ExtractMetadata(message) ==
  [role |-> message.role,
   model |-> message.model,
   partCount |-> Len(message.parts),
   partTypes |-> Unique([i \in 1..Len(message.parts) |-> <<message.parts[i].type>>])]

\* the loop of format(): the model of the last assistant message that has one
RECURSIVE ModelOf(_, _)
ModelOf(messages, model) ==
  IF Len(messages) = 0 THEN model
  ELSE ModelOf(Tail(messages),
               IF Head(messages).role = "assistant" /\ Head(messages).model # ""
               THEN Head(messages).model ELSE model)

\* the loop of format(): one exported message per tracked message
FormatOne(mode, message) ==
  IF IncludeContent(mode)
  THEN [role |-> message.role, content |-> Redact(FormatMessage(message).content)]
  ELSE LET metadata == ExtractMetadata(message)
       IN [role |-> metadata.role,
           content |-> <<"[">> \o NumberToString(metadata.partCount)
                       \o <<" parts, types: ">> \o Join(metadata.partTypes, ", ")
                       \o <<"]">>]

\* JSON.stringify(response)
JsonStringify(response) ==
  <<"{model:", response.model, ",choices:[">>
  \o Join([i \in 1..Len(response.choices) |->
             <<"{message:{role:", response.choices[i].message.role, ",content:">>
             \o response.choices[i].message.content
             \o <<"},finish_reason:", response.choices[i].finish_reason, "}">>], ",")
  \o <<"]}">>

\* TranscriptFormatter.format()
Format(mode, transcript) ==
  LET model == ModelOf(transcript, "unknown")
      assistants == SelectSeq(transcript, LAMBDA m : m.role = "assistant")
      response ==
        [model |-> model,
         choices |->
           IF Len(assistants) > 0
           THEN <<[message |->
                     [role |-> "assistant",
                      content |->
                        IF IncludeContent(mode)
                        THEN Redact(FormatMessage(assistants[Len(assistants)]).content)
                        ELSE <<"[content omitted]">>],
                   finish_reason |-> "stop"]>>
           ELSE <<>>]
  IN [request |-> [model |-> model,
                   messages |-> [i \in 1..Len(transcript) |-> FormatOne(mode, transcript[i])]],
      response |-> JsonStringify(response)]

\* format() called on the two transcripts
FormatCall ==
  /\ call.fn = "formatArgs"
  /\ call' = [fn |-> "format", mode |-> call.mode, a |-> call.a, b |-> call.b,
              outA |-> Format(call.mode, call.a), outB |-> Format(call.mode, call.b)]
  /\ UNCHANGED <<spool, processed, keys, flushTimer, processor, isProcessing,
                 maxRetries, maxSize, now, enq, fl, cln, acked, fresh, sd, last,
                 recent, plugin, ev>>

(***************************************************************************)
(* The session tracker, the message collector and the transcript builder   *)
(***************************************************************************)
MessageIds == {"m1", "m2"}
SessionIds == {"s1", "s2"}
EventRoles == {"user"}
Texts == {"t1", "t2"}
EventPartTypes == {"text", "reasoning"}

NoMessage == [sessionId |-> "none", role |-> "none", parts |-> <<>>]
NoTranscript == [session |-> "none", messages |-> <<>>]

\* new MessageCollector(), new SessionTracker(): no message, no session.
\* carried: history, message id -> the text the last message.part.updated
\* event with a text carried for it, "none" before any
NoCollector ==
  [fn |-> "collector", currentSession |-> "none",
   messages |-> [m \in MessageIds |-> NoMessage], messageOrder |-> <<>>,
   transcript |-> NoTranscript, carried |-> [m \in MessageIds |-> "none"]]

\* the event handler has routed an event of this type and returned
Routed(type) == last' = [NoEvent EXCEPT !.op = "event", !.id = type, !.result = "resolved"]

\* MessageCollector.onMessageUpdated() as handleMessageEvent calls it, the
\* content undefined: a known message keeps its parts, a new one has none
\* and goes to the end of messageOrder
OnMessageUpdated(c, messageId, sessionId, role) ==
  IF c.messages[messageId] # NoMessage THEN c
  ELSE [c EXCEPT !.messages[messageId] = [sessionId |-> sessionId, role |-> role, parts |-> <<>>],
                 !.messageOrder = Append(@, messageId)]

\* the index of the first text part, 0 if there is none (findIndex, the part
\* without toolCallId)
TextIndex(parts) ==
  IF \E k \in 1..Len(parts) : parts[k].type = "text"
  THEN CHOOSE k \in 1..Len(parts) :
         /\ parts[k].type = "text"
         /\ \A j \in 1..(k - 1) : parts[j].type # "text"
  ELSE 0

\* MessageCollector.onPartUpdated(): no message of that id, return; else the
\* part replaces the text part there is, or is pushed
OnPartUpdated(c, messageId, part) ==
  IF c.messages[messageId] = NoMessage THEN c
  ELSE [c EXCEPT !.messages[messageId].parts =
          IF TextIndex(@) > 0 THEN [@ EXCEPT ![TextIndex(@)] = part] ELSE Append(@, part)]

\* TranscriptBuilder.build(): the messages of the current session, in order
Build(c) ==
  [session |-> c.currentSession,
   messages |-> SelectSeq([k \in 1..Len(c.messageOrder) |->
                             [id |-> c.messageOrder[k],
                              sessionId |-> c.messages[c.messageOrder[k]].sessionId,
                              parts |-> c.messages[c.messageOrder[k]].parts]],
                          LAMBDA m : m.sessionId = c.currentSession)]

CollectorOnly ==
  UNCHANGED <<spool, processed, keys, flushTimer, processor, isProcessing,
              maxRetries, maxSize, now, enq, fl, cln, acked, fresh, sd,
              recent, plugin, ev>>

\* handleSessionEvent: session.created sets the current session;
\* session.updated sets it when the id differs or there is none
SessionEvent(type, id) ==
  /\ call.fn = "collector"
  /\ call' = IF type = "session.created" \/ call.currentSession # id
             THEN [call EXCEPT !.currentSession = id]
             ELSE call
  /\ Routed(type)
  /\ CollectorOnly

\* handleMessageEvent: an event without id, sessionID or role is left
MessageEvent(messageId, sessionId, role) ==
  /\ call.fn = "collector"
  /\ call' = IF messageId = "" \/ sessionId = "" \/ role = "" THEN call
             ELSE OnMessageUpdated(call, messageId, sessionId, role)
  /\ Routed("message.updated")
  /\ CollectorOnly

\* handleMessagePartEvent: a part of type text with a text goes to
\* onPartUpdated(); any other part is left
MessagePartEvent(messageId, partType, text) ==
  /\ call.fn = "collector"
  /\ call' = IF messageId = "" \/ partType # "text" \/ text = "" THEN call
             ELSE [OnPartUpdated(call, messageId, [type |-> "text", content |-> text])
                     EXCEPT !.carried[messageId] = text]
  /\ Routed("message.part.updated")
  /\ CollectorOnly

\* handleSessionIdle: with a session and a message, the transcript is built
IdleEvent ==
  /\ call.fn = "collector"
  /\ call.currentSession # "none"
  /\ \E m \in MessageIds : call.messages[m] # NoMessage
  /\ call' = [call EXCEPT !.transcript = Build(call)]
  /\ Routed("session.idle")
  /\ CollectorOnly

(***************************************************************************)
(* Specifications                                                          *)
(***************************************************************************)
\* One producer: its enqueue() calls follow one another
Producers == {1}

Produce ==
  \/ \E e \in Producers, i \in Ids : EnqueueCall(e, i)
  \/ \E e \in Producers : EnqueueRead(e)
  \/ \E e \in Producers : EnqueueWrite(e)
  \/ \E e \in Producers : EnqueueResume(e)

FlushSteps ==
  \/ \E s \in FlushSlots : FlushCollectPending(s)
  \/ \E s \in FlushSlots : FlushCollectFailed(s)
  \/ \E s \in FlushSlots : FlushMark(s)
  \/ \E s \in FlushSlots : ProcessorSucceeds(s)
  \/ \E s \in FlushSlots : ProcessorFails(s)
  \/ \E s \in FlushSlots : FlushRecord(s)
  \/ \E s \in FlushSlots : FlushReturn(s)
  \/ \E o \in CleanupOwners : CleanupList(o)
  \/ \E o \in CleanupOwners : CleanupAge(o)
  \/ \E o \in CleanupOwners : CleanupStats(o)
  \/ \E o \in CleanupOwners : CleanupSize(o)

\* The queue under a producer, flush() calls, the clock and process restarts
Next ==
  \/ Produce
  \/ FlushSteps
  \/ \E s \in FlushSlots : FlushCall(s, "manual")
  \/ SetProcessor
  \/ Tick
  \/ Restart

Spec == Init /\ [][Next]_vars

\* The manager's life cycle: start(), the interval timer, stop(), shutdown()
NextLifecycle ==
  \/ Produce
  \/ FlushSteps
  \/ \E s \in FlushSlots : FlushCall(s, "manual")
  \/ \E s \in FlushSlots : FlushCall(s, "timer")
  \/ SetProcessor
  \/ Start
  \/ Stop
  \/ \E s \in FlushSlots : Shutdown(s)

\* a manager constructed with one configured retry limit
InitLifecycle == Init /\ maxRetries = LifecycleMaxRetries

SpecLifecycle == InitLifecycle /\ [][NextLifecycle]_vars

\* A producer beside flush() calls and the detached cleanup() of start(),
\* the flush() calls remembering the records written after their collection
NextLate ==
  \/ \E e \in Producers, i \in Ids : EnqueueCall(e, i)
  \/ \E e \in Producers : EnqueueRead(e)
  \/ \E e \in Producers : EnqueueWriteLate(e)
  \/ \E e \in Producers : EnqueueResume(e)
  \/ FlushSteps
  \/ \E s \in FlushSlots : FlushCall(s, "manual")
  \/ SetProcessor
  \/ Start

SpecLate == InitLifecycle /\ [][NextLate]_vars

\* The queue with spool I/O errors
NextIO ==
  \/ Produce
  \/ FlushSteps
  \/ \E s \in FlushSlots : FlushCall(s, "manual")
  \/ SetProcessor
  \/ Tick
  \/ \E e \in Producers : EnqueueWriteFails(e)
  \/ \E e \in Producers : EnqueueReadFails(e)

SpecIO == Init /\ [][NextIO]_vars

\* A tracker of any capacity from 1 up, and the calls made on it
InitTracker ==
  /\ spool = [i \in Ids |-> NoRec]
  /\ processed = {}
  /\ keys = <<>>
  /\ flushTimer = FALSE
  /\ processor = FALSE
  /\ isProcessing = FALSE
  /\ maxRetries = 0
  /\ maxSize \in 1..TrackerCapacityBound
  /\ now = 0
  /\ enq = [e \in EnqCallers |-> IdleEnq]
  /\ fl = [s \in FlushSlots |-> IdleFlush]
  /\ cln = [o \in CleanupOwners |-> IdleCleanup]
  /\ acked = {}
  /\ fresh = [i \in Ids |-> NoFresh]
  /\ sd = NoShutdown
  /\ last = NoEvent
  /\ recent = NoRecent
  /\ call = NoCall
  /\ plugin = NoPlugin
  /\ ev = [h \in Handlers |-> IdleHandler]

NextTracker ==
  \/ \E k \in TrackerKeys : HasKey(k)
  \/ \E k \in TrackerKeys : AddKey(k)
  \/ \E k \in TrackerKeys : RemoveKey(k)
  \/ ClearKeys

SpecTracker == InitTracker /\ [][NextTracker]_vars

\* The session id utilities, called with arguments of every kind
InitKeys ==
  /\ spool = [i \in Ids |-> NoRec]
  /\ processed = {}
  /\ keys = <<>>
  /\ flushTimer = FALSE
  /\ processor = FALSE
  /\ isProcessing = FALSE
  /\ maxRetries = 0
  /\ maxSize = TrackerMaxSize
  /\ now = 0
  /\ enq = [e \in EnqCallers |-> IdleEnq]
  /\ fl = [s \in FlushSlots |-> IdleFlush]
  /\ cln = [o \in CleanupOwners |-> IdleCleanup]
  /\ acked = {}
  /\ fresh = [i \in Ids |-> NoFresh]
  /\ sd = NoShutdown
  /\ last = NoEvent
  /\ recent = NoRecent
  /\ call \in {[fn |-> "keyArgs", a |-> a, b |-> b] : a \in KeyTriples, b \in KeyTriples}
            \cup {[fn |-> "uuidArgs", hash |-> h] : h \in HashValues}
  /\ plugin = NoPlugin
  /\ ev = [h \in Handlers |-> IdleHandler]

NextKeys ==
  \/ GenerateKeys
  \/ SessionToUUIDCall

SpecKeys == InitKeys /\ [][NextKeys]_vars

\* session.idle delivered again and again for one session whose captured
\* data does not change
NextIdle ==
  \/ \E e \in EnqCallers : SessionIdle(e)
  \/ \E e \in EnqCallers : EnqueueRead(e)
  \/ \E e \in EnqCallers : EnqueueWrite(e)
  \/ \E e \in EnqCallers : EnqueueResume(e)
  \/ Tick

SpecIdle == Init /\ [][NextIdle]_vars

\* format() applied to two transcripts that differ in part contents only,
\* in each export mode that formats
InitFormat ==
  /\ spool = [i \in Ids |-> NoRec]
  /\ processed = {}
  /\ keys = <<>>
  /\ flushTimer = FALSE
  /\ processor = FALSE
  /\ isProcessing = FALSE
  /\ maxRetries = 0
  /\ maxSize = TrackerMaxSize
  /\ now = 0
  /\ enq = [e \in EnqCallers |-> IdleEnq]
  /\ fl = [s \in FlushSlots |-> IdleFlush]
  /\ cln = [o \in CleanupOwners |-> IdleCleanup]
  /\ acked = {}
  /\ fresh = [i \in Ids |-> NoFresh]
  /\ sd = NoShutdown
  /\ last = NoEvent
  /\ recent = NoRecent
  /\ call \in {[fn |-> "formatArgs", mode |-> m, a |-> Fill(s, fa), b |-> Fill(s, fb)] :
                 m \in ExportModes, s \in TranscriptShapes,
                 fa \in UniformFills, fb \in PartFills}
  /\ plugin = NoPlugin
  /\ ev = [h \in Handlers |-> IdleHandler]

\* The collectors under session, message and part events in every order
InitCollector ==
  /\ spool = [i \in Ids |-> NoRec]
  /\ processed = {}
  /\ keys = <<>>
  /\ flushTimer = FALSE
  /\ processor = FALSE
  /\ isProcessing = FALSE
  /\ maxRetries = 0
  /\ maxSize = TrackerMaxSize
  /\ now = 0
  /\ enq = [e \in EnqCallers |-> IdleEnq]
  /\ fl = [s \in FlushSlots |-> IdleFlush]
  /\ cln = [o \in CleanupOwners |-> IdleCleanup]
  /\ acked = {}
  /\ fresh = [i \in Ids |-> NoFresh]
  /\ sd = NoShutdown
  /\ last = NoEvent
  /\ recent = NoRecent
  /\ call = NoCollector
  /\ plugin = NoPlugin
  /\ ev = [h \in Handlers |-> IdleHandler]

NextCollector ==
  \/ \E type \in {"session.created", "session.updated"}, id \in SessionIds : SessionEvent(type, id)
  \/ \E m \in MessageIds \cup {""}, id \in SessionIds, r \in EventRoles \cup {""} : MessageEvent(m, id, r)
  \/ \E m \in MessageIds \cup {""}, t \in EventPartTypes, x \in Texts \cup {""} : MessagePartEvent(m, t, x)
  \/ IdleEvent

SpecCollector == InitCollector /\ [][NextCollector]_vars

NextFormat == FormatCall

SpecFormat == InitFormat /\ [][NextFormat]_vars

\* The plugin under events of every type, with failures of initialization,
\* of the collectors, of formatting and of the spool.  The cleanup that
\* start() detaches runs its age pass; the pending items of one session stay
\* under the size limit, so its size pass is never entered.
NextPlugin ==
  \/ \E h \in Handlers, type \in EventTypes : EventCall(h, type)
  \/ \E h \in Handlers, st \in {"null", "state"} : InitializeResolves(h, st)
  \/ \E h \in Handlers : InitializeThrows(h)
  \/ \E h \in Handlers : EventEnqueueRead(h)
  \/ \E h \in Handlers : EventEnqueueReadFails(h)
  \/ \E h \in Handlers : EventEnqueueWrite(h)
  \/ \E h \in Handlers : EventEnqueueWriteFails(h)
  \/ \E h \in Handlers : EventEnqueueResume(h)
  \/ \E h \in Handlers : EventResume(h)
  \/ \E h \in Handlers : EventToast(h)
  \/ CleanupList(0)
  \/ CleanupAge(0)
  \/ CleanupStats(0)
  \/ Tick

SpecPlugin == InitLifecycle /\ [][NextPlugin]_vars

\* enqueue() called with items of every status and retry count, beside
\* flush() calls
NextEnqueue ==
  \/ \E e \in Producers, item \in PassedItems : EnqueueItem(e, item)
  \/ \E e \in Producers : EnqueueRead(e)
  \/ \E e \in Producers : EnqueueWrite(e)
  \/ \E e \in Producers : EnqueueResume(e)
  \/ FlushSteps
  \/ \E s \in FlushSlots : FlushCall(s, "manual")
  \/ SetProcessor

SpecEnqueue == InitLifecycle /\ [][NextEnqueue]_vars

\* The detached cleanup() of start() beside a producer and flush() calls,
\* with the clock
NextCleanup ==
  \/ Produce
  \/ FlushSteps
  \/ \E s \in FlushSlots : FlushCall(s, "manual")
  \/ SetProcessor
  \/ Start
  \/ Tick

SpecCleanup == InitLifecycle /\ [][NextCleanup]_vars

\* One process without spool errors, the successful deliveries remembered
NextOnce ==
  \/ Produce
  \/ \E s \in FlushSlots : FlushCall(s, "manual")
  \/ \E s \in FlushSlots : FlushCollectPending(s)
  \/ \E s \in FlushSlots : FlushCollectFailed(s)
  \/ \E s \in FlushSlots : FlushMark(s)
  \/ \E s \in FlushSlots : ProcessorSucceedsOnce(s)
  \/ \E s \in FlushSlots : ProcessorFails(s)
  \/ \E s \in FlushSlots : FlushRecord(s)
  \/ \E s \in FlushSlots : FlushReturn(s)
  \/ \E o \in CleanupOwners : CleanupList(o)
  \/ \E o \in CleanupOwners : CleanupAge(o)
  \/ \E o \in CleanupOwners : CleanupStats(o)
  \/ \E o \in CleanupOwners : CleanupSize(o)
  \/ SetProcessor

SpecOnce == InitLifecycle /\ [][NextOnce]_vars

\* Two callers of enqueue() at once
NextRace ==
  \/ \E e \in EnqCallers, i \in Ids : EnqueueCall(e, i)
  \/ \E e \in EnqCallers : EnqueueRead(e)
  \/ \E e \in EnqCallers : EnqueueWrite(e)
  \/ \E e \in EnqCallers : EnqueueResume(e)
  \/ Tick

SpecRace == InitLifecycle /\ [][NextRace]_vars

\* The queue with spool I/O errors inside flush() and cleanup(), the clock
\* and process restarts
NextFlushIO ==
  \/ Produce
  \/ FlushSteps
  \/ \E s \in FlushSlots : FlushCall(s, "manual")
  \/ SetProcessor
  \/ Tick
  \/ Restart
  \/ \E s \in FlushSlots : FlushListFails(s)
  \/ \E s \in FlushSlots : FlushMarkFails(s)
  \/ \E s \in FlushSlots : FlushDeleteFails(s)
  \/ \E s \in FlushSlots : FlushRecordFails(s)
  \/ \E o \in CleanupOwners : CleanupListFails(o)
  \/ \E o \in CleanupOwners, k \in 1..Cardinality(Ids) : CleanupAgeFails(o, k)

SpecFlushIO == InitLifecycle /\ [][NextFlushIO]_vars

(***************************************************************************)
(* Properties                                                              *)
(***************************************************************************)
\* C1 (idempotent enqueue): when enqueue() is called for an id whose record
\* an earlier enqueue() wrote and returned true for, and no step of flush()
\* or cleanup() and no other write of that id came in between, the call
\* returns false and the spool still holds exactly the record the first call
\* wrote.
C1_IdempotentEnqueue ==
  (last.op = "enqueue" /\ last.second) =>
     /\ last.result \in {"tracker", "spool"}
     /\ fresh[last.id].rec # NoRec
     /\ spool[last.id] = fresh[last.id].rec
     /\ \A j \in Ids : spool[j] # NoRec => spool[j].id = j

\* a second enqueue() of the id was rejected by the spool check, the tracker
\* having lost the id (evicted, or emptied by a restart) since the first call
C1_Witness ==
  /\ last.op = "enqueue" /\ last.second /\ last.result = "spool"
  /\ spool[last.id].status = "pending"

\* a flush() call is between marking item i as processing and the end of
\* that attempt (its delete, or the write of failed or dead)
InFlight(i) ==
  \E s \in FlushSlots : fl[s].pc \in {"mark", "deliver", "record"} /\ fl[s].item.id = i

\* the record of i will be attempted: a later flush() collects it, or a
\* running flush() is attempting it
Retryable(i) ==
  \/ spool[i].status \in {"pending", "failed"}
  \/ spool[i].status = "processing" /\ InFlight(i)

\* this step is the processor resolving for item i
Delivered(i) ==
  \E s \in FlushSlots : /\ fl[s].pc = "deliver" /\ fl[s].item.id = i
                         /\ fl'[s].processed = fl[s].processed + 1

\* C2 (at-least-once delivery): the record of an item whose enqueue() returned
\* true stays one that a flush() will attempt, until the processor resolves
\* for it or it is dead, whatever happens: failed attempts, restarts of the
\* process, the cleanup() at the end of each flush().
C2_AtLeastOnce ==
  [][\A i \in acked :
        Retryable(i) => (Retryable(i)' \/ spool'[i].status = "dead" \/ Delivered(i))]_vars

\* the persisted status and retryCount of every record agree with the retry
\* limit: failed below it, dead at it
RetryCountsAgree ==
  \A i \in Ids :
    /\ spool[i].status = "failed" => spool[i].retryCount < maxRetries
    /\ spool[i].status = "dead" => spool[i].retryCount = maxRetries

\* a step that persists the outcome of a failed attempt adds one to the
\* persisted retryCount, and makes the record dead exactly when the count
\* reaches the retry limit
FailureCounted(i) ==
  (spool[i].status = "processing" /\ spool'[i].status \in {"failed", "dead"}) =>
     /\ spool'[i].retryCount = spool[i].retryCount + 1
     /\ spool'[i].retryCount <= maxRetries
     /\ spool'[i].status = "dead" <=> spool'[i].retryCount = maxRetries

\* C3 (retry escalation) as stated, for every maxRetries >= 0: an item
\* enqueued with retryCount 0 is failed after each failed cycle before the
\* maxRetries-th, and dead, with retryCount = maxRetries, after it.
C3_RetryEscalation ==
  [][\A i \in Ids : FailureCounted(i) /\ RetryCountsAgree']_vars

\* with no retries allowed, the first failed attempt makes the record dead,
\* its retryCount 1
DeadAtFirstFailure(i) ==
  (spool[i].status = "processing" /\ spool'[i].status \in {"failed", "dead"}) =>
     spool'[i].status = "dead" /\ spool'[i].retryCount = 1

\* C3 for maxRetries >= 1: failed after each failed cycle before the
\* maxRetries-th, dead with retryCount = maxRetries after it; and for
\* maxRetries = 0: dead with retryCount 1 after the first failed cycle.
C3_RetryEscalationFromOne ==
  [][/\ maxRetries >= 1 => \A i \in Ids : FailureCounted(i) /\ RetryCountsAgree'
     /\ maxRetries = 0 => \A i \in Ids : DeadAtFirstFailure(i)]_vars

\* a record went through failed and is dead, its retryCount the retry limit
C3_Witness ==
  /\ maxRetries = MaxRetriesBound
  /\ \E i \in Ids : spool[i].status = "dead" /\ spool[i].retryCount = maxRetries

ActiveFlushes == {s \in FlushSlots : fl[s].pc # "idle"}

\* C5 (flush reentrancy): at most one flush() call is past the isProcessing
\* guard at any time, and a flush() called meanwhile (by the timer, by a
\* caller or by shutdown()) returns 0 without touching the spool, the
\* tracker, the running flush() or the processor.
C5_FlushReentrancy ==
  [][/\ Cardinality(ActiveFlushes') <= 1
     /\ isProcessing' <=> ActiveFlushes' # {}
     /\ (last'.op = "flush" /\ last'.result = "skipped") =>
          /\ ActiveFlushes # {}
          /\ last'.n = 0
          /\ UNCHANGED <<spool, processed, keys, fl, cln, isProcessing>>]_vars

\* a flush() was called while another one awaited the processor, and returned 0
C5_Witness ==
  /\ last.op = "flush" /\ last.result = "skipped" /\ last.id = "timer"
  /\ \E s \in FlushSlots : fl[s].pc = "deliver"

\* C6 (shutdown drain): when shutdown() resolves, the timer is stopped and
\* every item that was pending or failed when it was called has had a
\* delivery attempt, in whatever state it was called.
C6_ShutdownDrain ==
  (last.op = "flush" /\ last.id = "shutdown") => (~flushTimer /\ last.missed = {})

\* this step is cleanup() deleting records
CleanupDeletes ==
  \E o \in CleanupOwners : cln[o].pc \in {"age", "size"} /\ cln'[o].pc # cln[o].pc

C8_ProducerNeverBlocked ==
  \A e \in Producers :
    /\ enq[e].pc = "idle" => \A i \in Ids : ENABLED EnqueueCall(e, i)
    /\ enq[e].pc = "read" => ENABLED EnqueueRead(e)
    /\ enq[e].pc = "write" => ENABLED EnqueueWrite(e)
    /\ enq[e].pc = "resume" => ENABLED EnqueueResume(e)
    /\ enq[e].pc \in {"idle", "read", "write", "resume"}

\* an enqueue() is about to write while a flush() awaits the processor
C8_Witness ==
  /\ \E e \in Producers : enq[e].pc = "write"
  /\ \E s \in FlushSlots : fl[s].pc = "deliver"
  /\ isProcessing

\* C9 (enqueue never raises): enqueue() returns true or false, also when the
\* spool read or the spool write hits an I/O error.
C9_EnqueueNeverRaises ==
  last.op = "enqueue" => last.result \in {"accepted", "tracker", "spool"}

\* C10 (the spool is authoritative): whatever the tracker holds, enqueue()
\* goes on to write only when its spool check found no record for the id,
\* and an enqueue() rejected by the spool check leaves the id in the tracker.
C10_SpoolAuthoritative ==
  [][/\ \A e \in Producers :
          (enq[e].pc \in {"idle", "read"} /\ enq'[e].pc = "write") =>
             spool[enq'[e].item.id] = NoRec
     /\ (last'.op = "enqueue" /\ last'.result = "accepted") =>
          \E e \in Producers : enq[e].pc = "resume" /\ enq[e].item.id = last'.id
     /\ (last'.op = "enqueue" /\ last'.result \in {"tracker", "spool"}) =>
          (last'.id \in processed' /\ spool' = spool)
     /\ (last'.op = "enqueue" /\ last'.result = "spool") =>
          spool[last'.id] # NoRec]_vars

\* an enqueue() was rejected by the spool check although the tracker did not
\* hold the id: the tracker holds it now
C10_Witness ==
  /\ last.op = "enqueue" /\ last.result = "spool"
  /\ last.id \in processed /\ spool[last.id] # NoRec

\* this step is the age pass of the cleanup() call of owner o
AgePass(o) == cln[o].pc = "age" /\ cln'[o].pc = "stats"

SizePassStep(o) == cln[o].pc = "size" /\ cln'[o].pc = "done"

\* this step is getStats() resolving in the cleanup() call of owner o
StatsStep(o) == cln[o].pc = "stats" /\ cln'[o].pc \in {"size", "done"}

\* the ids whose record this step deletes
DeletedNow == {i \in Ids : spool[i] # NoRec /\ spool'[i] = NoRec}

C13_FifoEviction ==
  (recent.pure /\ Cardinality(recent.seen) > maxSize) =>
     /\ Len(recent.added) = maxSize
     /\ \A k \in TrackerKeys : IdempotencyHas(k) <=> k \in Range(recent.added)

\* C14 (tracker capacity bound): over every sequence of add, remove and
\* clear calls with any string keys, the empty string among them, size()
\* never exceeds maxSize and has(k) is true only for keys among the at most
\* maxSize most recently added, not removed keys.
C14_CapacityBound ==
  /\ TrackerSize <= maxSize
  /\ \A k \in TrackerKeys : IdempotencyHas(k) => k \in Range(recent.added)

\* C16 (key derivation is unambiguous): two triples (sessionId, messageId,
\* timestamp) that differ in a field give different hash inputs, whatever
\* characters the ids contain, and equal triples give the same key.
C16_KeyInputUnambiguous ==
  call.fn = "generateIdempotencyKey" =>
     /\ call.a # call.b => call.inputA # call.inputB
     /\ call.a = call.b => call.keyA = call.keyB

\* C17 (sessionToUUID format): whatever 64-bit value the hash returns, the
\* result is five groups of 8, 4, 4, 4 and 12 hexadecimal digits joined by
\* hyphens, which isValidUUID accepts.
C17_UuidFormat ==
  call.fn = "sessionToUUID" => IsValidUUID(call.uuid)

\* the hash value had leading zero digits, which toString(16) drops
C17_Witness ==
  /\ call.fn = "sessionToUUID" /\ call.hash = <<0, 0, 255, 4096>>
  /\ call.uuid[1] = "0" /\ call.uuid[36] = "0" /\ call.uuid[12] = "f"

\* C15 (one item per unit of activity): however often session.idle is
\* delivered for a session whose captured data did not change, at whatever
\* clock times, the derived key is the same and enqueue() accepts one item
\* only.
C15_OneItemPerUnit ==
  /\ Cardinality(acked) <= 1
  /\ \A e1, e2 \in EnqCallers :
        (enq[e1].pc # "idle" /\ enq[e2].pc # "idle") => enq[e1].item.id = enq[e2].item.id

\* C18 (metadata-only mode exports no content): in metadata_only mode,
\* format() gives the same request and response for two transcripts that
\* differ only in the content strings of their parts.
C18_MetadataOnly ==
  (call.fn = "format" /\ call.mode = "metadata_only" /\ SameButContent(call.a, call.b))
     => call.outA = call.outB

\* two transcripts with an assistant message whose text parts differ were
\* formatted in metadata_only mode
C18_Witness ==
  /\ call.fn = "format" /\ call.mode = "metadata_only"
  /\ SameButContent(call.a, call.b)
  /\ Len(call.a) = 2 /\ call.a[2].role = "assistant" /\ Len(call.a[2].parts) = 2
  /\ call.a[2].parts[1].type = "text"
  /\ call.a[2].parts[1].content # call.b[2].parts[1].content
  /\ call.outA.request.messages[2].content = <<"[", "2", " parts, types: ", "text", "]">>

\* C19 (the event handler never lets an exception escape): whatever the
\* event, and whether initialization, a collector, formatting or enqueue()
\* (a spool I/O error included) fails, the handler's promise resolves.
C19_NoEscape ==
  last.op = "event" => last.result = "resolved"

\* the spool write failed inside enqueue(), enqueue() threw, and the
\* handler's promise settled
C19_Witness ==
  last.op = "event" /\ last.caught = "enqueue" /\ last.id = "session.idle"

\* C20 (an accepted enqueue persists pending and 0): right after enqueue()
\* returned true, the record of that id has status pending and retryCount 0,
\* whatever the item passed in carried.
C20_AcceptedIsPending ==
  (last.op = "enqueue" /\ last.result = "accepted")
     => (spool[last.id].status = "pending" /\ spool[last.id].retryCount = 0)

\* C20 as the code has it: right after enqueue() returned true, no step of
\* flush() or cleanup() having run since its write, the record of that id is
\* the item as it was passed, with the status and retryCount it carried
\* (pending and 0 for an item passed with these).
C20_PersistsAsPassed ==
  (last.op = "enqueue" /\ last.result = "accepted" /\ fresh[last.id].returned)
     => /\ spool[last.id] = fresh[last.id].rec
        /\ \E item \in PassedItems :
              /\ item.id = last.id
              /\ item.status = spool[last.id].status
              /\ item.retryCount = spool[last.id].retryCount

\* enqueue() returned true for an item passed as dead with retries counted
C20_Witness ==
  /\ last.op = "enqueue" /\ last.result = "accepted" /\ fresh[last.id].returned
  /\ spool[last.id].status = "dead" /\ spool[last.id].retryCount = MaxRetriesBound

\* the edges of the status state machine: r is the record of an id before a
\* step, r2 after it
StatusEdge(r, r2) ==
  \/ r2.status = r.status
  \/ r.status = "absent" /\ r2.status = "pending"
  \/ r.status \in {"pending", "failed"} /\ r2.status = "processing"
  \/ r.status = "processing" /\ r2.status = "failed" /\ r2.retryCount < maxRetries
  \/ r.status = "processing" /\ r2.status = "dead" /\ r2.retryCount >= maxRetries
  \/ r2.status = "absent"

\* C21 (status state machine): over enqueue, flush and cleanup the persisted
\* status of an item changes only along absent -> pending, pending or failed
\* -> processing, processing -> absent, failed or dead (by the new
\* retryCount), and any status -> absent.
C21_StatusEdges ==
  [][\A i \in Ids : StatusEdge(spool[i], spool'[i])]_vars

\* the step persists the outcome of a failed processor call for the id i:
\* the write started by the catch branch takes effect
FailureRecorded(i) ==
  \E s \in FlushSlots :
     /\ fl[s].pc = "record" /\ fl[s].item.id = i
     /\ fl'[s].pc # "record" /\ spool'[i] = fl[s].item

\* C22 (retryCount is monotonic and counts the failed attempts): the
\* persisted retryCount of a record never decreases; the write that follows
\* a failed processor call for the item adds exactly 1 to it; no other step
\* changes the retryCount of a record that stays in the spool.
C22_RetryCountCounts ==
  [][\A i \in Ids :
        (spool[i] # NoRec /\ spool'[i] # NoRec) =>
           IF FailureRecorded(i)
           THEN spool'[i].retryCount = spool[i].retryCount + 1
           ELSE spool'[i].retryCount = spool[i].retryCount]_vars

\* the step invokes the processor in the flush() of frame s
Invoked(s) == fl[s].pc # "deliver" /\ fl'[s].pc = "deliver"

\* C23 (processing is persisted before the attempt): the processor is
\* invoked for an item only as the write of the item marked processing, with
\* lastAttemptAt set, has taken effect; a crash during the delivery leaves
\* the record in status processing; when that write fails the processor is
\* not invoked for the item.
C23_PersistedBeforeAttempt ==
  [][\A s \in FlushSlots :
        /\ Invoked(s) =>
              /\ fl[s].pc = "mark"
              /\ spool'[fl'[s].item.id] = fl'[s].item
              /\ spool'[fl'[s].item.id].status = "processing"
              /\ spool'[fl'[s].item.id].lastAttemptAt # -1
        /\ (fl[s].pc = "deliver" /\ fl'[s].pc = "idle") =>
              spool'[fl[s].item.id].status = "processing"
        /\ (fl[s].pc = "mark" /\ spool'[fl[s].item.id] # fl[s].item) => ~Invoked(s)]_vars

\* the write of the mark of the second item of a batch failed: the catch
\* branch is entered for it, the processor was invoked for the first item only
C23_Witness ==
  \E s \in FlushSlots :
     /\ fl[s].pc = "record" /\ fl[s].io /\ fl[s].item.lastAttemptAt = 1
     /\ fl[s].processed = 1
     /\ spool[fl[s].item.id].status \in {"pending", "failed"}

\* the ids of the records of a listing, in order
IdsOf(items) == [k \in 1..Len(items) |-> items[k].id]

\* the ids of toProcess not yet called: the marked one, then the rest
Uncalled(f) == (IF f.pc = "mark" THEN <<f.item.id>> ELSE <<>>) \o IdsOf(f.batch)

\* C24: per-item failure isolation.  In a flush() whose spool operations all
\* succeed, toProcess is what the two listings returned (pending, then
\* failed); while the loop runs, the processor calls made so far followed by
\* the items not yet called are exactly toProcess, whatever calls have
\* failed, no id being called twice; the loop is left only when every item
\* of toProcess has had its call; and flush() returns the number of calls
\* that succeeded.
C24_FailureIsolation ==
  [][\A s \in FlushSlots :
       /\ (fl[s].pc = "failed" /\ fl'[s].pc = "mark")
            => fl'[s].collected = IdsOf(fl[s].batch \o GetByStatus(spool, "failed"))
       /\ (fl[s].pc = "failed" /\ fl'[s].pc = "cleanup")
            => fl[s].batch \o GetByStatus(spool, "failed") = <<>>
       /\ fl[s].pc \in {"mark", "deliver", "record"}
            => /\ fl[s].called \o Uncalled(fl[s]) = fl[s].collected
               /\ Cardinality(Range(fl[s].collected)) = Len(fl[s].collected)
               /\ fl[s].ok \subseteq Range(fl[s].called)
               /\ fl[s].processed = Cardinality(fl[s].ok)
       /\ (fl[s].pc \in {"deliver", "record"} /\ fl'[s].pc = "cleanup")
            => /\ fl[s].called = fl[s].collected
               /\ fl'[s].processed = Cardinality(fl'[s].ok)
       /\ (fl[s].pc = "cleanup" /\ fl'[s].pc = "idle" /\ last'.op = "flush")
            => last'.result = "done" /\ last'.n = Cardinality(fl[s].ok)]_vars

\* the first call of a batch of two has failed, and the second item is with
\* the processor
C24_Witness ==
  \E s \in FlushSlots :
    /\ fl[s].pc = "deliver"
    /\ Len(fl[s].collected) = 2
    /\ fl[s].called = fl[s].collected
    /\ fl[s].called[1] \notin fl[s].ok
    /\ spool[fl[s].called[1]].error

\* a spool operation of the flush() in frame s fails in this step: the error
\* enters the catch branch of the loop body, or leaves flush()
SpoolErrorIn(s) ==
  \/ ~fl[s].io /\ fl'[s].io
  \/ fl[s].pc # "idle" /\ last'.op = "flush" /\ last'.result = "threw"

\* the item changed by a catch branch that a spool error entered is written
SpoolErrorRecorded(s) ==
  /\ fl[s].pc = "record" /\ fl[s].io
  /\ fl'[s].pc # "record"
  /\ spool'[fl[s].item.id] = fl[s].item

\* C25: every spool I/O error during flush() propagates as a failed flush
\* cycle.  A step in which a spool write, delete, listing or cleanup of a
\* flush() fails is the step in which that flush() rejects, and no item is
\* written with the retryCount and the failed or dead status that a catch
\* branch gave it on account of a spool error.
C25_SpoolErrorsPropagate ==
  [][\A s \in FlushSlots :
       /\ SpoolErrorIn(s) => (fl'[s].pc = "idle" /\ last'.op = "flush" /\ last'.result = "threw")
       /\ ~SpoolErrorRecorded(s)]_vars

\* the delay computed for a failed record has not elapsed at time t
TooEarly(r, t) == r.status = "failed" /\ t - r.lastAttemptAt < GetRetryDelay(r.retryCount)

C27_BackoffEnforced ==
  [][\A s \in FlushSlots : Invoked(s) => ~TooEarly(spool[fl[s].item.id], now)]_vars

\* the age loop of the cleanup() of owner o deletes in this step the record
\* of id i, which is newer than the version that the listing of this
\* cleanup() returned
DeletesNewer(o, i) ==
  /\ cln[o].pc = "age" /\ cln'[o].pc # "age"
  /\ spool[i] # NoRec /\ spool'[i] = NoRec
  /\ \E k \in 1..Len(cln[o].all) :
       cln[o].all[k].id = i /\ spool[i].createdAt > cln[o].all[k].createdAt

\* C28: cleanup() is safe against concurrent writes.  For every interleaving
\* of a cleanup() with enqueue() and flush(), cleanup() never deletes a
\* record that was written with a newer createdAt after its listing read the
\* older version of that id.
C28_CleanupRereads ==
  [][\A o \in CleanupOwners : \A i \in Ids : ~DeletesNewer(o, i)]_vars

\* the age loop of the cleanup() of owner o runs in this step
AgeLoopRuns(o) == cln[o].pc = "age" /\ cln'[o].pc # "age" /\ last'.op # "none"

\* C29: bulk spool operations skip and continue on a single-item I/O error.
\* Whatever single delete fails in the age loop of cleanup(), the loop does
\* not raise, and of the expired records of its listing at most the one
\* whose delete failed is left.
C29_BulkSkipsAndContinues ==
  [][\A o \in CleanupOwners :
       AgeLoopRuns(o)
         => /\ last'.result # "threw"
            /\ Cardinality({i \in Expired(cln[o].all, cln[o].at) : spool'[i] # NoRec}) <= 1]_vars

\* C30: flush() without a configured processor is a no-op.  While no
\* processor is set, no flush() is in progress, none has a cleanup() running
\* and isProcessing is false; a flush() called then returns 0 at once and
\* leaves the spool, the tracker, the timer and every frame as they were.
C30_NoProcessorNoOp ==
  [][(~processor /\ ~processor')
       => /\ \A s \in FlushSlots : fl'[s] = IdleFlush /\ cln'[s] = IdleCleanup
          /\ ~isProcessing'
          /\ last'.op = "flush"
               => /\ last'.result = "noprocessor" /\ last'.n = 0
                  /\ UNCHANGED <<spool, processed, keys, flushTimer, isProcessing, fl, cln, enq, acked>>]_vars

\* a flush() has returned 0 for want of a processor while a pending record
\* was waiting
C30_Witness ==
  /\ last.op = "flush" /\ last.result = "noprocessor" /\ last.n = 0
  /\ ~processor /\ ~isProcessing
  /\ \E i \in Ids : spool[i].status = "pending"

\* C31: an item that enqueue() wrote after a running flush() collected its
\* batch is not given to the processor by that flush(); until that flush()
\* returns its record is pending with retryCount 0, or reclaimed by the
\* cleanup(); and a flush() that collects its batch while the record is
\* pending has it in the batch.
C31_LateItemWaits ==
  [][\A s \in FlushSlots :
       /\ Invoked(s) => fl'[s].item.id \notin fl[s].late
       /\ \A i \in fl[s].late :
            \/ spool[i] = NoRec
            \/ spool[i].status = "pending" /\ spool[i].retryCount = 0
       /\ (fl[s].pc = "pending" /\ fl'[s].pc = "failed")
            => \A i \in Ids : spool[i].status = "pending"
                 => \E k \in 1..Len(fl'[s].batch) : fl'[s].batch[k].id = i]_vars

\* the record of id i is processing and no flush() call is attempting it
Stale(i) ==
  /\ spool[i].status = "processing"
  /\ \A s \in FlushSlots : ~(fl[s].pc \in {"deliver", "record"} /\ fl[s].item.id = i)

\* C32: no recovery path for stale processing items.  A record left in
\* processing by a crash in mid-flush or by a failed status write is in no
\* batch and is given to the processor by no flush(), also after a restart:
\* it stays as it is until a cleanup() deletes it.
C32_StaleStaysProcessing ==
  [][\A i \in Ids :
       Stale(i)
         => /\ \A s \in FlushSlots : \A k \in 1..Len(fl'[s].batch) : fl'[s].batch[k].id # i
            /\ \A s \in FlushSlots : Invoked(s) => fl'[s].item.id # i
            /\ \/ spool'[i] = spool[i]
               \/ spool'[i] = NoRec /\ CleanupDeletes]_vars

\* after a restart a flush() has returned, and a record is still processing
C32_Witness ==
  /\ last.op = "flush" /\ last.result = "done"
  /\ \A s \in FlushSlots : fl[s].pc = "idle"
  /\ \E i \in Ids : Stale(i)

\* C33: the tracker is strict FIFO, not LRU.  An add() of an absent key at
\* capacity takes out the present key whose add is oldest, and only that
\* one; has() and the add() of a present key change neither the set nor the
\* eviction order; remove() takes out only its key and leaves the others in
\* the order of their adds.
C33_StrictFifo ==
  [][/\ last'.op = "has" => (processed' = processed /\ keys' = keys)
     /\ (last'.op = "add" /\ last'.id \in processed)
          => (processed' = processed /\ keys' = keys)
     /\ (last'.op = "add" /\ last'.id \notin processed)
          => /\ processed' \ processed = {last'.id}
             /\ processed \ processed' =
                  IF TrackerSize >= maxSize THEN {Head(recent.order)} ELSE {}
     /\ last'.op = "remove"
          => /\ processed' = processed \ {last'.id}
             /\ recent'.order = Splice(recent.order, last'.id)
     /\ last'.op \in {"has", "add", "remove"} => keys' = recent'.order]_vars

\* C34: concurrent enqueues of one id admit one winner.  Of two enqueue()
\* calls with the same id that overlap in time, at most one returns true: a
\* call during which another call of its id returned true does not return
\* true.
C34_OneWinner ==
  [][\A e \in EnqCallers :
       (enq[e].pc = "resume" /\ enq'[e].pc = "idle" /\ last'.result = "accepted")
         => ~enq[e].won]_vars

\* C35: the reentrancy flag is always released.  isProcessing is true
\* exactly while a flush() call is between its guard and its end; a call
\* that ends, by returning or by throwing, leaves it false, and no flush()
\* is skipped by the guard while none is running.
C35_FlagReleased ==
  [][/\ isProcessing' <=> (\E s \in FlushSlots : fl'[s].pc # "idle")
     /\ \A s \in FlushSlots : (fl[s].pc # "idle" /\ fl'[s].pc = "idle") => ~isProcessing'
     /\ (last'.op = "flush" /\ last'.result = "skipped")
          => (\E s \in FlushSlots : fl[s].pc # "idle")]_vars

\* a flush() has thrown after delivering an item, and the flag is down
C35_Witness ==
  /\ last.op = "flush" /\ last.result = "threw" /\ last.n = 1
  /\ ~isProcessing

\* C36: a rejected enqueue() changes nothing on disk.  The step in which
\* enqueue() returns false, by the tracker or by the record it found, leaves
\* every record as it is, whatever item was passed; so does the step in
\* which the call starts; and a call that returns false has started no write.
C36_RejectedChangesNothing ==
  [][/\ (last'.op = "enqueue" /\ last'.result \in {"tracker", "spool"})
          => /\ spool' = spool
             /\ last'.result = "spool" => spool[last'.id] # NoRec
             /\ \A e \in EnqCallers : enq[e].pc \in {"write", "resume"} => enq'[e].pc = enq[e].pc
     /\ \A e \in EnqCallers :
          (enq[e].pc \in {"idle", "read"} /\ enq'[e].pc # enq[e].pc) => spool' = spool]_vars

\* enqueue() has returned false for an id whose record carries a failed
\* attempt, which no item passed in has
C36_Witness ==
  /\ last.op = "enqueue" /\ last.result = "spool"
  /\ spool[last.id].status \in {"failed", "dead"}
  /\ spool[last.id].error /\ spool[last.id].retryCount = 1

\* C37 as stated: when the write of enqueue() rejects, the id is in the
\* tracker and in the spool no more than before, it has no record, and an
\* enqueue() of the same id called next goes on to its write.
C37_FailedEnqueueAccepted ==
  [][/\ (last'.op = "enqueue" /\ last'.result = "threw")
          => /\ UNCHANGED <<processed, keys, spool, acked>>
             /\ ~IdempotencyHas(last'.id)
             /\ SpoolRead(spool, last'.id) = NoRec
     /\ (last.op = "enqueue" /\ last.result = "threw")
          => /\ (last'.op = "enqueue" /\ last'.id = last.id) => last'.result \notin {"tracker", "spool"}
             /\ \A e \in EnqCallers :
                  (enq[e].pc = "idle" /\ enq'[e].pc # "idle" /\ enq'[e].item.id = last.id)
                    => enq'[e].pc = "write"]_vars

\* C37 amended: a failed enqueue() does not poison deduplication.  The step in which
\* the write of enqueue() rejects leaves the tracker and the spool as they
\* are and the id out of the tracker; unless the id has a record from an
\* earlier enqueue(), an enqueue() of the same id called next returns false
\* by neither check and goes on to its write.
C37_FailedEnqueueNotPoisoned ==
  [][/\ (last'.op = "enqueue" /\ last'.result = "threw")
          => /\ UNCHANGED <<processed, keys, spool, acked>>
             /\ ~IdempotencyHas(last'.id)
     /\ (last.op = "enqueue" /\ last.result = "threw" /\ SpoolRead(spool, last.id) = NoRec)
          => /\ (last'.op = "enqueue" /\ last'.id = last.id) => last'.result \notin {"tracker", "spool"}
             /\ \A e \in EnqCallers :
                  (enq[e].pc = "idle" /\ enq'[e].pc # "idle" /\ enq'[e].item.id = last.id)
                    => enq'[e].pc = "write"]_vars

\* the write of enqueue() has rejected while the tracker holds the other id
C37_Witness ==
  /\ last.op = "enqueue" /\ last.result = "threw"
  /\ ~IdempotencyHas(last.id) /\ spool[last.id] = NoRec
  /\ processed # {}

\* C38: no id is delivered successfully twice within one process lifetime.
\* Without restart and without spool errors, the processor resolves at most
\* once for each id.
C38_DeliveredOnce ==
  [][\A s \in FlushSlots :
       (fl[s].pc = "deliver" /\ fl'[s].pc \in {"mark", "cleanup"})
         => fl[s].item.id \notin recent.delivered]_vars

\* C39: no event is lost to lazy initialization.  initializeState() is
\* called once, and when it has resolved with the state, no event that has a
\* collector or a handler was returned unrouted while it was in progress.
C39_NoEventLost ==
  /\ Cardinality({h \in Handlers : ev[h].pc = "init"}) <= 1
  /\ (\E h \in Handlers : ev[h].pc = "init") => plugin.initialized /\ plugin.state = "null"
  /\ ~(plugin.state = "state" /\ plugin.lost)

\* C40: message text is captured independently of event order.  In the
\* transcript just built, every message of the current session has the text
\* the last message.part.updated event carried for it, whether that event
\* came before or after the first message.updated event of the message.
C40_TextWhateverOrder ==
  (call.fn = "collector" /\ last.op = "event" /\ last.id = "session.idle") =>
    \A m \in MessageIds :
      (call.messages[m].sessionId = call.currentSession /\ call.carried[m] # "none") =>
        \E k \in 1..Len(call.transcript.messages) :
          /\ call.transcript.messages[k].id = m
          /\ \E j \in 1..Len(call.transcript.messages[k].parts) :
               /\ call.transcript.messages[k].parts[j].type = "text"
               /\ call.transcript.messages[k].parts[j].content = call.carried[m]

====
